---- MODULE Spec2Model ----
(***************************************************************************)
(* Model of the YouTube hashtag tracker (src/src/index.ts): the sheets of  *)
(* the spreadsheet, the provider fetch, the two dedupe routines, the daily *)
(* aggregation, the subscriber history and the workflows main(),           *)
(* dailyUpdate(), updateDailyStats() and updateSubscriberHistory().        *)
(*                                                                         *)
(* A sheet is a sequence of rows; row 1 is the header once it is written.  *)
(* A row of the main / stacking sheet keeps the columns the routines read: *)
(*   fetchedAt (col 1), hashtag (col 2), videoId (col 3), category (col 4),*)
(*   channelTitle (col 7), viewCount (col 11).                             *)
(* The category labels are written REGULAR for the label of a regular      *)
(* video and SHORT for the label of a short one.                           *)
(* Time is a count of clock ticks; a calendar day is DayLen ticks.         *)
(***************************************************************************)
EXTENDS Integers, Sequences, FiniteSets, TLC

VARIABLES
    mainSheet,    \* the main sheet (SHEET_NAME)
    stackSheet,   \* the stacking sheet of dailyUpdate
    statsSheet,   \* the daily statistics sheet
    now,          \* the clock (Date.now())
    pc,           \* where the running workflow stands; "idle" between runs
    idx,          \* loop position in TARGET_HASHTAGS of the running workflow
    allRawData,   \* rows fetched so far by the running updateDailyStats()
    todayStr,     \* the date updateDailyStats() formatted when it started
    runLog,       \* per hashtag of the running workflow: outcome and rows
    lastRequest,  \* the last call of fetchYouTubeVideoData: who, hashtag, publishedAfter
    before,       \* the sheet as the last sheet-rewriting routine found it
    resp,         \* the provider's answers to the fetch under study
    newRows,      \* what that fetch returned
    historySheet, \* the subscriber history sheet
    channelMap,   \* channelMap of the last updateSubscriberHistory(), in insertion order
    loopPages,    \* pageCount of the fetch whose search loop is running
    loopIds,      \* allVideoIds of that fetch
    invocations,  \* the local state of invocations that run concurrently
    lastSort      \* the range of the last Range.sort call

vars == <<mainSheet, stackSheet, statsSheet, now, pc, idx, allRawData, todayStr, runLog,
          lastRequest, before, resp, newRows, historySheet, channelMap, loopPages,
          loopIds, invocations, lastSort>>

----------------------------------------------------------------------------
(* Bounds of the model *)

MaxTime == 2          \* the clock runs from 0 to MaxTime
MaxRows == 3          \* data rows of a table drawn as an input
MaxItems == 2         \* entries of one provider response
MaxPagesAnswered == 2 \* search pages one provider response spells out
MaxStackRows == 1     \* dailyUpdate starts only while the stacking sheet is this short
MaxStatsRows == 4     \* updateDailyStats starts only while the statistics sheet is this short
MaxMainRows == 3      \* data rows of the main sheet updateSubscriberHistory reads
MaxHistoryRows == 1   \* updateSubscriberHistory starts only while the history sheet is this short
MaxScenarioRows == 2  \* records of the dedupe-then-aggregate scenario

(* Program constants *)

DayLen == 2           \* ticks per calendar day (24 * 60 * 60 * 1000 ms in the source)
LookbackDays == 365
maxPages == 10
FrozenRows == 1

TARGET_HASHTAGS == <<"#A", "#B">>

REGULAR == "REGULAR"
SHORT == "SHORT"
Categories == {REGULAR, SHORT}

VideoIds == {"vid1", "vid2"}
Channels == {"ch1", "ch2"}
UnknownChannel == "unknown"

Hashtags == {TARGET_HASHTAGS[i] : i \in DOMAIN TARGET_HASHTAGS}

----------------------------------------------------------------------------
(* Rows and sheets *)

Header == [fetchedAt |-> -1, hashtag |-> "hashtag", videoId |-> "videoId",
           category |-> "category", channelTitle |-> "channelTitle", viewCount |-> -1]

Row(t, h, v, c, ch, n) ==
    [fetchedAt |-> t, hashtag |-> h, videoId |-> v, category |-> c,
     channelTitle |-> ch, viewCount |-> n]

DataRows(sheet) == IF Len(sheet) <= 1 THEN <<>> ELSE Tail(sheet)

StartOfDay(t) == t - (t % DayLen)

RECURSIVE SeqSum(_)
SeqSum(s) == IF s = <<>> THEN 0 ELSE Head(s) + SeqSum(Tail(s))

----------------------------------------------------------------------------
(* removeDuplicateVideos *)

\* a sort that is not stable: a row goes in front of the rows of equal fetchedAt
RECURSIVE InsertByDateDesc_unstable(_, _)
InsertByDateDesc_unstable(sorted, r) ==
    IF sorted = <<>> THEN <<r>>
    ELSE IF Head(sorted).fetchedAt > r.fetchedAt
         THEN <<Head(sorted)>> \o InsertByDateDesc_unstable(Tail(sorted), r)
         ELSE <<r>> \o sorted

\* Array.prototype.sort with (a, b) => b[0] - a[0]: descending in fetchedAt, stable.
RECURSIVE InsertByDateDesc(_, _)
InsertByDateDesc(sorted, r) ==
    IF sorted = <<>> THEN <<r>>
    ELSE IF Head(sorted).fetchedAt >= r.fetchedAt
         THEN <<Head(sorted)>> \o InsertByDateDesc(Tail(sorted), r)
         ELSE <<r>> \o sorted

RECURSIVE SortByDateDescFrom(_, _)
SortByDateDescFrom(sorted, rest) ==
    IF rest = <<>> THEN sorted
    ELSE SortByDateDescFrom(InsertByDateDesc(sorted, Head(rest)), Tail(rest))

\* no sort at all: the rows stay in sheet order
SortByDateDesc_sheetOrder(rows) == rows

\* a sort by date ascending: the oldest row of a video comes first
SortByDateDesc_oldestFirst(rows) ==
    LET sorted == SortByDateDescFrom(<<>>, rows)
    IN  [i \in DOMAIN sorted |-> sorted[Len(sorted) + 1 - i]]

SortByDateDesc(rows) == SortByDateDescFrom(<<>>, rows)

\* the videoMap loop without its has() test: a later row overwrites the entry
RECURSIVE KeepFirstPerVideoId_overwrite(_, _)
KeepFirstPerVideoId_overwrite(rows, seen) ==
    IF rows = <<>> THEN <<>>
    ELSE IF Head(rows).videoId \in seen
         THEN KeepFirstPerVideoId_overwrite(Tail(rows), seen)
         ELSE LET same == SelectSeq(rows, LAMBDA r : r.videoId = Head(rows).videoId)
              IN  <<same[Len(same)]>> \o
                  KeepFirstPerVideoId_overwrite(Tail(rows), seen \cup {Head(rows).videoId})

\* the videoMap loop keyed on the hashtag column together with the videoId
RECURSIVE KeepFirstPerVideoId_perHashtag(_, _)
KeepFirstPerVideoId_perHashtag(rows, seen) ==
    IF rows = <<>> THEN <<>>
    ELSE LET key == <<Head(rows).hashtag, Head(rows).videoId>>
         IN  IF key \in seen
             THEN KeepFirstPerVideoId_perHashtag(Tail(rows), seen)
             ELSE <<Head(rows)>> \o KeepFirstPerVideoId_perHashtag(Tail(rows), seen \cup {key})

\* the videoMap loop: the first row of each videoId, in order of first occurrence
RECURSIVE KeepFirstPerVideoId(_, _)
KeepFirstPerVideoId(rows, seen) ==
    IF rows = <<>> THEN <<>>
    ELSE IF Head(rows).videoId \in seen
         THEN KeepFirstPerVideoId(Tail(rows), seen)
         ELSE <<Head(rows)>> \o KeepFirstPerVideoId(Tail(rows), seen \cup {Head(rows).videoId})

removeDuplicateVideos(sheet) ==
    IF Len(sheet) <= 1 THEN sheet
    ELSE <<Head(sheet)>> \o KeepFirstPerVideoId(SortByDateDesc(Tail(sheet)), {})

----------------------------------------------------------------------------
(* fetchYouTubeVideoData                                                    *)
(*                                                                          *)
(* The provider's answers to one fetch are a record:                        *)
(*   search   - the answers to the successive Search.list calls, each a     *)
(*              page [throws, items, next]: the call throws, or returns the *)
(*              videoIds of the page (NoId for an item without one), next   *)
(*              telling whether the page carries a nextPageToken; a call    *)
(*              beyond the last answer finds an empty page;                 *)
(*   videos   - the answer to Videos.list, [throws, items];                 *)
(*   channels - the answer to Channels.list, [throws, ids]: the channel ids *)
(*              it resolves (a channel's title is written as its id).       *)
(* An entry of Videos.list is [id, hasSnippet, title, channelId,            *)
(* publishedAt, viewCount]: publishedAt tells whether the snippet carries a *)
(* publish timestamp, viewCount is the statistics string.                   *)

NoId == "NOID"
EmptyPage == [throws |-> FALSE, items |-> <<>>, next |-> FALSE]
ThrowPage == [throws |-> TRUE, items |-> <<>>, next |-> FALSE]
Page(ids, more) == [throws |-> FALSE, items |-> ids, next |-> more]
Video(id, sn, title, ch, pub, views) ==
    [id |-> id, hasSnippet |-> sn, title |-> title, channelId |-> ch,
     publishedAt |-> pub, viewCount |-> views]

\* Number.parseInt(s || "0", 10) || 0 on the count strings of the model
ParseCount(s) ==
    CASE s = "100" -> 100
      [] s = "150" -> 150
      [] OTHER -> 0       \* absent, empty or not a number

\* Texts are sequences of one-character strings; an absent (undefined) snippet
\* field is a text that is not present.
Text_(chars) == [present |-> TRUE, chars |-> chars]
Absent == [present |-> FALSE, chars |-> <<>>]

UpperCase == <<"A", "B", "C", "D", "E", "F", "G", "H", "I", "J", "K", "L", "M",
               "N", "O", "P", "Q", "R", "S", "T", "U", "V", "W", "X", "Y", "Z">>
LowerCase == <<"a", "b", "c", "d", "e", "f", "g", "h", "i", "j", "k", "l", "m",
               "n", "o", "p", "q", "r", "s", "t", "u", "v", "w", "x", "y", "z">>

\* String.prototype.toLowerCase on the characters of the model
toLowerCase(chars) ==
    [i \in DOMAIN chars |->
        IF \E k \in DOMAIN UpperCase : UpperCase[k] = chars[i]
        THEN LowerCase[CHOOSE k \in DOMAIN UpperCase : UpperCase[k] = chars[i]]
        ELSE chars[i]]

\* String.prototype.includes
includes(chars, searchString) ==
    \E i \in 0..(Len(chars) - Len(searchString)) :
        SubSeq(chars, i + 1, i + Len(searchString)) = searchString

HashShorts == <<"#", "s", "h", "o", "r", "t", "s">>
Shorts == <<"s", "h", "o", "r", "t", "s">>

\* a variant that tests the literal "#shorts" only
isShort_literalOnly(title, description) ==
    \/ title.present /\ includes(title.chars, HashShorts)
    \/ description.present /\ includes(description.chars, HashShorts)

\* the isShort test; x?.includes(..) of an absent x is undefined, which is falsy
isShort(title, description) ==
    \/ title.present /\ includes(title.chars, HashShorts)
    \/ description.present /\ includes(description.chars, HashShorts)
    \/ title.present /\ includes(toLowerCase(title.chars), Shorts)
    \/ description.present /\ includes(toLowerCase(description.chars), Shorts)

\* the characters of the titles the provider answers of the model carry
CharsOf(title) ==
    CASE title = "a #shorts" -> <<"a", " ", "#", "s", "h", "o", "r", "t", "s">>
      [] title = "Shorts b" -> <<"S", "h", "o", "r", "t", "s", " ", "b">>
      [] title = "a" -> <<"a">>
      [] OTHER -> <<>>

\* the videos of the provider answers carry a title and no description
IsShort(title) == isShort(Text_(CharsOf(title)), Absent)

PageAt(search, n) == IF n <= Len(search) THEN search[n] ELSE EmptyPage

\* the do/while loop: [threw, ids, calls] - whether a Search.list call threw,
\* the ids collected, the number of calls issued
RECURSIVE SearchLoop(_, _, _)
SearchLoop(search, pageCount, allVideoIds) ==
    LET page == PageAt(search, pageCount + 1)
    IN  IF page.throws
        THEN [threw |-> TRUE, ids |-> allVideoIds, calls |-> pageCount + 1]
        ELSE IF page.items = <<>>
        THEN [threw |-> FALSE, ids |-> allVideoIds, calls |-> pageCount + 1]
        ELSE LET ids == allVideoIds \o SelectSeq(page.items, LAMBDA id : id # NoId)
             IN  IF page.next /\ pageCount + 1 < maxPages
                 THEN SearchLoop(search, pageCount + 1, ids)
                 ELSE [threw |-> FALSE, ids |-> ids, calls |-> pageCount + 1]

ChannelIdsOf(items) ==
    {items[i].channelId :
        i \in {k \in DOMAIN items : items[k].hasSnippet /\ items[k].channelId # NoId}}

\* a normalization loop that ends at the first entry it cannot use
RECURSIVE FormatRows_stopsAtInvalid(_, _, _, _)
FormatRows_stopsAtInvalid(items, channelInfoMap, hashtag, fetchTime) ==
    IF items = <<>> THEN <<>>
    ELSE LET video == Head(items)
         IN  IF video.id = NoId \/ ~video.hasSnippet \/ ~video.publishedAt THEN <<>>
             ELSE <<Row(fetchTime, hashtag, video.id,
                        IF IsShort(video.title) THEN SHORT ELSE REGULAR,
                        IF video.channelId \in channelInfoMap
                            THEN video.channelId ELSE UnknownChannel,
                        ParseCount(video.viewCount))>> \o
                  FormatRows_stopsAtInvalid(Tail(items), channelInfoMap, hashtag, fetchTime)

\* the normalization loop over videosResponse.items
RECURSIVE FormatRows(_, _, _, _)
FormatRows(items, channelInfoMap, hashtag, fetchTime) ==
    IF items = <<>> THEN <<>>
    ELSE LET video == Head(items)
             rest == FormatRows(Tail(items), channelInfoMap, hashtag, fetchTime)
         IN  IF video.id = NoId \/ ~video.hasSnippet THEN rest
             ELSE IF ~video.publishedAt THEN rest
             ELSE <<Row(fetchTime, hashtag, video.id,
                        IF IsShort(video.title) THEN SHORT ELSE REGULAR,
                        IF video.channelId \in channelInfoMap
                            THEN video.channelId ELSE UnknownChannel,
                        ParseCount(video.viewCount))>> \o rest

\* a try block that survives a failed search page: the ids of the pages read
\* so far are still looked up and formatted
FetchTry_keepCollected(hashtag, r, fetchTime) ==
    LET found == SearchLoop(r.search, 0, <<>>)
    IN  IF found.ids = <<>> THEN [threw |-> found.threw, rows |-> <<>>]
        ELSE IF r.videos.throws THEN [threw |-> TRUE, rows |-> <<>>]
        ELSE IF r.videos.items = <<>> THEN [threw |-> found.threw, rows |-> <<>>]
        ELSE IF ChannelIdsOf(r.videos.items) # {} /\ r.channels.throws
        THEN [threw |-> TRUE, rows |-> <<>>]
        ELSE [threw |-> found.threw,
              rows |-> FormatRows(r.videos.items,
                                  IF ChannelIdsOf(r.videos.items) # {}
                                      THEN r.channels.ids ELSE {},
                                  hashtag, fetchTime)]

\* the body of the try block: [threw, rows] - whether a provider call threw,
\* and newRows as it stands when the block is left
FetchTry(hashtag, r, fetchTime) ==
    LET found == SearchLoop(r.search, 0, <<>>)
    IN  IF found.threw THEN [threw |-> TRUE, rows |-> <<>>]
        ELSE IF found.ids = <<>> THEN [threw |-> FALSE, rows |-> <<>>]
        ELSE IF r.videos.throws THEN [threw |-> TRUE, rows |-> <<>>]
        ELSE IF r.videos.items = <<>> THEN [threw |-> FALSE, rows |-> <<>>]
        ELSE IF ChannelIdsOf(r.videos.items) # {} /\ r.channels.throws
        THEN [threw |-> TRUE, rows |-> <<>>]
        ELSE [threw |-> FALSE,
              rows |-> FormatRows(r.videos.items,
                                  IF ChannelIdsOf(r.videos.items) # {}
                                      THEN r.channels.ids ELSE {},
                                  hashtag, fetchTime)]

\* the catch block logs and falls through to "return newRows"
fetchYouTubeVideoData(hashtag, r, fetchTime) == FetchTry(hashtag, r, fetchTime).rows

----------------------------------------------------------------------------
(* Specification SpecDedupe: removeDuplicateVideos applied, twice over, to *)
(* an arbitrary main sheet with a header and up to MaxRows data rows.      *)

TableRows == {Row(t, h, v, REGULAR, "ch1", 0) : t \in 0..2, h \in Hashtags, v \in VideoIds}

RECURSIVE SeqsUpTo(_, _)
SeqsUpTo(S, n) ==
    IF n = 0 THEN {<<>>}
    ELSE LET shorter == SeqsUpTo(S, n - 1)
         IN  shorter \cup {Append(s, x) : s \in {q \in shorter : Len(q) = n - 1}, x \in S}

\* no Range.sort call yet
NoSort == [sheet |-> "none", firstRow |-> 0, lastRow |-> 0]

NoRequest == [workflow |-> "none", hashtag |-> "none", publishedAfter |-> 0, at |-> 0]
NoResp == [search |-> <<>>, videos |-> [throws |-> FALSE, items |-> <<>>],
           channels |-> [throws |-> FALSE, ids |-> {}]]

InitDedupe ==
    /\ mainSheet \in {<<Header>> \o rows : rows \in SeqsUpTo(TableRows, MaxRows)}
    /\ stackSheet = <<>>
    /\ statsSheet = <<>>
    /\ now = 0
    /\ pc = "input"
    /\ idx = 1
    /\ allRawData = <<>>
    /\ todayStr = 0
    /\ historySheet = <<>>
    /\ channelMap = <<>>
    /\ loopPages = 0
    /\ loopIds = <<>>
    /\ invocations = <<>> /\ lastSort = NoSort
    /\ runLog = <<>>
    /\ lastRequest = NoRequest
    /\ before = mainSheet
    /\ resp = NoResp
    /\ newRows = <<>>

ApplyDedupe ==
    /\ pc \in {"input", "deduped"}
    /\ before' = mainSheet
    /\ mainSheet' = removeDuplicateVideos(mainSheet)
    /\ pc' = IF pc = "input" THEN "deduped" ELSE "dedupedTwice"
    /\ UNCHANGED <<historySheet, channelMap, loopPages, loopIds, invocations, lastSort,
                   todayStr, stackSheet, statsSheet, now, idx, allRawData, runLog,
                   lastRequest, resp, newRows>>

NextDedupe == ApplyDedupe

SpecDedupe == InitDedupe /\ [][NextDedupe]_vars

VideoIdsOf(rows) == {rows[i].videoId : i \in DOMAIN rows}
IndexesOf(rows, v) == {i \in DOMAIN rows : rows[i].videoId = v}

\* the position of the row to keep for v: greatest fetchedAt, earliest on a tie
MostRecentFirstSeen(rows, v) ==
    CHOOSE i \in IndexesOf(rows, v) :
        \A j \in IndexesOf(rows, v) :
            \/ rows[j].fetchedAt < rows[i].fetchedAt
            \/ (rows[j].fetchedAt = rows[i].fetchedAt /\ i <= j)

\* C1: after removeDuplicateVideos every videoId of the input table is in
\* exactly one data row, and that row is the input row of greatest fetchedAt
\* for the videoId, the first of them in input order on a tie.
C1_DedupeKeepsMostRecent ==
    pc = "deduped" =>
        LET inp == DataRows(before)
            out == DataRows(mainSheet)
        IN  \A v \in VideoIdsOf(inp) :
                /\ Cardinality(IndexesOf(out, v)) = 1
                /\ \A k \in IndexesOf(out, v) : out[k] = inp[MostRecentFirstSeen(inp, v)]

\* C1 witness: a dedupe whose input had two different rows of one videoId
\* tied on the greatest fetchedAt, and an older row of it as well.
C1_Witness ==
    /\ pc = "deduped"
    /\ LET inp == DataRows(before)
       IN  \E i, j, k \in DOMAIN inp :
               /\ i < j
               /\ inp[i].videoId = inp[j].videoId /\ inp[k].videoId = inp[i].videoId
               /\ inp[i].fetchedAt = inp[j].fetchedAt
               /\ inp[i] # inp[j]
               /\ inp[k].fetchedAt < inp[i].fetchedAt

\* C6: a second removeDuplicateVideos right after the first leaves the sheet
\* as it was: same rows, same order, header in row 1.
C6_DedupeIdempotent ==
    pc = "dedupedTwice" => (mainSheet = before /\ Head(mainSheet) = Header)

\* C6 witness: the second dedupe ran on a sheet holding two rows of equal
\* fetchedAt, after a first dedupe.
C6_Witness ==
    /\ pc = "dedupedTwice"
    /\ \E i, j \in DOMAIN DataRows(mainSheet) :
           i < j /\ DataRows(mainSheet)[i].fetchedAt = DataRows(mainSheet)[j].fetchedAt

----------------------------------------------------------------------------
(* Specification SpecFetch: one call of fetchYouTubeVideoData against an    *)
(* arbitrary provider.                                                      *)

SearchPages == {ThrowPage, EmptyPage, Page(<<"vid1">>, TRUE), Page(<<"vid2">>, FALSE),
                Page(<<NoId>>, TRUE)}

FetchItems == {Video("vid1", TRUE, "a", "ch1", TRUE, "100"),
               Video("vid2", TRUE, "a #shorts", "ch2", TRUE, "150"),
               Video("vid2", TRUE, "a", NoId, TRUE, "x"),
               Video(NoId, TRUE, "a", "ch1", TRUE, "100"),
               Video("vid1", FALSE, "a", NoId, FALSE, "100"),
               Video("vid2", TRUE, "a", "ch1", FALSE, "100")}

VideosAnswers(items, n) ==
    {[throws |-> TRUE, items |-> <<>>]} \cup
    {[throws |-> FALSE, items |-> q] : q \in SeqsUpTo(items, n)}

ChannelsAnswers ==
    {[throws |-> TRUE, ids |-> {}]} \cup
    {[throws |-> FALSE, ids |-> c] : c \in {{}, {"ch1"}, Channels}}

\* a page is asked for only after a page that holds items and names a successor
ProviderResponses ==
    [search : {q \in SeqsUpTo(SearchPages, MaxPagesAnswered) :
                  \A k \in 1..(Len(q) - 1) : q[k].items # <<>> /\ q[k].next},
     videos : VideosAnswers(FetchItems, MaxItems),
     channels : ChannelsAnswers]

InitFetch ==
    /\ resp \in ProviderResponses
    /\ mainSheet = <<>>
    /\ stackSheet = <<>>
    /\ statsSheet = <<>>
    /\ now = 0
    /\ pc = "call"
    /\ idx = 1
    /\ allRawData = <<>>
    /\ todayStr = 0
    /\ historySheet = <<>>
    /\ channelMap = <<>>
    /\ loopPages = 0
    /\ loopIds = <<>>
    /\ invocations = <<>> /\ lastSort = NoSort
    /\ runLog = <<>>
    /\ lastRequest = NoRequest
    /\ before = <<>>
    /\ newRows = <<>>

Fetch ==
    /\ pc = "call"
    /\ \E hashtag \in Hashtags :
          /\ newRows' = fetchYouTubeVideoData(hashtag, resp, now)
          /\ lastRequest' = [workflow |-> "fetch", hashtag |-> hashtag,
                             publishedAfter |-> now - LookbackDays * DayLen, at |-> now]
    /\ pc' = "returned"
    /\ UNCHANGED <<historySheet, channelMap, loopPages, loopIds, invocations, lastSort,
                   todayStr, mainSheet, stackSheet, statsSheet, now, idx, allRawData, runLog,
                   before, resp>>

NextFetch == Fetch

SpecFetch == InitFetch /\ [][NextFetch]_vars

\* the search pages the loop reads: page k is read when every page before it
\* returned items and a continuation token, up to maxPages pages
PageRead(r, k) ==
    /\ k <= maxPages
    /\ \A j \in 1..(k - 1) :
          LET p == PageAt(r.search, j) IN ~p.throws /\ p.items # <<>> /\ p.next

IdsCollectedBefore(r, k) ==
    \E j \in 1..(k - 1) : \E i \in DOMAIN PageAt(r.search, j).items :
        PageAt(r.search, j).items[i] # NoId

SearchThrows(r) == \E k \in 1..Len(r.search) : PageRead(r, k) /\ r.search[k].throws

SearchThrowsAfterIds(r) ==
    \E k \in 1..Len(r.search) :
        PageRead(r, k) /\ r.search[k].throws /\ IdsCollectedBefore(r, k)

IdsCollected(r) ==
    \E j \in 1..Len(r.search) :
        /\ PageRead(r, j) /\ ~r.search[j].throws
        /\ \E i \in DOMAIN r.search[j].items : r.search[j].items[i] # NoId

VideosCalled(r) == ~SearchThrows(r) /\ IdsCollected(r)

ChannelsCalled(r) ==
    /\ VideosCalled(r) /\ ~r.videos.throws
    /\ \E i \in DOMAIN r.videos.items :
          r.videos.items[i].hasSnippet /\ r.videos.items[i].channelId # NoId

SomeProviderCallThrows(r) ==
    \/ SearchThrows(r)
    \/ VideosCalled(r) /\ r.videos.throws
    \/ ChannelsCalled(r) /\ r.channels.throws

\* C8: when a provider call made by fetchYouTubeVideoData throws (a search
\* page at any page number, the video-details call or the channel call) the
\* function still returns, and it returns no row at all.
C8_ProviderFailureYieldsNoRows ==
    (pc = "returned" /\ SomeProviderCallThrows(resp)) => newRows = <<>>

\* C8 witness: the second search page threw after the first page had
\* delivered a videoId, with a video-details answer that would format to rows.
C8_Witness ==
    /\ pc = "returned"
    /\ SearchThrowsAfterIds(resp)
    /\ ~resp.videos.throws /\ ~resp.channels.throws
    /\ FormatRows(resp.videos.items, resp.channels.ids, "#A", 0) # <<>>
    /\ newRows = <<>>

\* the call got as far as the normalization loop
NormalizationReached(r) ==
    /\ VideosCalled(r) /\ ~r.videos.throws /\ r.videos.items # <<>>
    /\ ~(ChannelsCalled(r) /\ r.channels.throws)

\* the entries with an id, a snippet and a publish timestamp
Complete(items) ==
    {i \in DOMAIN items : items[i].id # NoId /\ items[i].hasSnippet /\ items[i].publishedAt}

\* the position in items of the k-th complete entry
NthComplete(items, k) ==
    CHOOSE i \in Complete(items) : Cardinality({j \in Complete(items) : j <= i}) = k

\* C20: the normalization loop of fetchYouTubeVideoData makes a row of an
\* entry exactly when the entry has an id, a snippet and a publish timestamp;
\* the rows returned are those of the complete entries, in response order,
\* whatever incomplete entries stand between them.
C20_RowIffComplete ==
    (pc = "returned" /\ NormalizationReached(resp)) =>
        LET items == resp.videos.items
        IN  /\ Len(newRows) = Cardinality(Complete(items))
            /\ \A k \in DOMAIN newRows :
                   /\ newRows[k].videoId = items[NthComplete(items, k)].id
                   /\ newRows[k].viewCount = ParseCount(items[NthComplete(items, k)].viewCount)
                   /\ newRows[k].hashtag = lastRequest.hashtag

\* C20 witness: a response whose first entry has a snippet without a publish
\* timestamp and whose second entry is complete gave the row of the second.
C20_Witness ==
    /\ pc = "returned"
    /\ NormalizationReached(resp)
    /\ Len(resp.videos.items) = 2
    /\ resp.videos.items[1].hasSnippet /\ ~resp.videos.items[1].publishedAt
    /\ resp.videos.items[1].id # NoId
    /\ Complete(resp.videos.items) = {2}
    /\ Len(newRows) = 1 /\ newRows[1].videoId = resp.videos.items[2].id

----------------------------------------------------------------------------
(* setupSheetHeaders and removeDailyDuplicates *)

setupSheetHeaders(sheet) ==
    IF sheet = <<>> THEN <<Header>>
    ELSE IF sheet[1].fetchedAt # Header.fetchedAt THEN [sheet EXCEPT ![1] = Header]
    ELSE sheet

\* sheet.deleteRow(rowNum)
deleteRow(sheet, rowNum) ==
    [k \in 1..(Len(sheet) - 1) |-> IF k < rowNum THEN sheet[k] ELSE sheet[k + 1]]

\* data.filter(...): the data rows fetched today, in sheet order
TodayData(sheet, today) == SelectSeq(DataRows(sheet), LAMBDA row : row.fetchedAt >= today)

\* the backward loop over todayData. Positions are those of the source plus one
\* (sequences start at 1); uniqueVideos maps a videoId to its kept position.
RECURSIVE DailyLoop(_, _, _, _)
DailyLoop(todayData, i, uniqueVideos, rowsToDelete) ==
    IF i = 0 THEN rowsToDelete
    ELSE LET videoId == todayData[i].videoId
         IN  IF videoId \notin DOMAIN uniqueVideos
             THEN DailyLoop(todayData, i - 1, uniqueVideos @@ (videoId :> i), rowsToDelete)
             ELSE LET originalRowIndex == uniqueVideos[videoId]
                  IN  IF todayData[i].fetchedAt > todayData[originalRowIndex].fetchedAt
                      THEN DailyLoop(todayData, i - 1,
                                     [uniqueVideos EXCEPT ![videoId] = i],
                                     Append(rowsToDelete, originalRowIndex))
                      ELSE DailyLoop(todayData, i - 1, uniqueVideos,
                                     Append(rowsToDelete, i))

SetMax(S) == CHOOSE m \in S : \A x \in S : x <= m

\* a variant that sorts the row numbers in ascending order
RECURSIVE SortDescending_ascending(_)
SortDescending_ascending(S) ==
    IF S = {} THEN <<>>
    ELSE LET least == CHOOSE m \in S : \A x \in S : m <= x
         IN  <<least>> \o SortDescending_ascending(S \ {least})

\* [...new Set(rowsToDelete)].map(i => i + firstDataRow).sort((a, b) => b - a),
\* i being a position in todayData counted from 0
RECURSIVE SortDescending(_)
SortDescending(S) ==
    IF S = {} THEN <<>> ELSE <<SetMax(S)>> \o SortDescending(S \ {SetMax(S)})

SortedRowsToDelete(rowsToDelete) ==
    LET firstDataRow == FrozenRows + 1
    IN  SortDescending({(rowsToDelete[k] - 1) + firstDataRow : k \in DOMAIN rowsToDelete})

RECURSIVE DeleteRows(_, _)
DeleteRows(sheet, rowNums) ==
    IF rowNums = <<>> THEN sheet
    ELSE DeleteRows(deleteRow(sheet, Head(rowNums)), Tail(rowNums))

removeDailyDuplicates(sheet, clock) ==
    LET todayData == TodayData(sheet, StartOfDay(clock))
    IN  IF sheet = <<>> THEN sheet
        ELSE IF Len(todayData) <= 1 THEN sheet
        ELSE DeleteRows(sheet,
                 SortedRowsToDelete(DailyLoop(todayData, Len(todayData), <<>>, <<>>)))

----------------------------------------------------------------------------
(* Specification Spec: the scheduler starts main() and dailyUpdate() one    *)
(* after the other while the clock advances. A workflow is a start step, one*)
(* step per hashtag and the dedupe step. main() reads and writes the main   *)
(* sheet only and dailyUpdate() the stacking sheet only, so a behaviour     *)
(* follows the runs of one of the two workflows: main() starts while the    *)
(* stacking sheet is untouched, dailyUpdate() while the main sheet is.      *)

\* Provider answers of the workflow runs: the search throws, or it finds ids
\* and Videos.list returns complete entries of distinct ids.
WorkflowItems == {Video("vid1", TRUE, "a", "ch1", TRUE, "100"),
                  Video("vid2", TRUE, "a #shorts", "ch2", TRUE, "150")}

DistinctIds(items) == \A i, j \in DOMAIN items : i # j => items[i].id # items[j].id

WorkflowResponses ==
    {[search |-> <<ThrowPage>>, videos |-> [throws |-> FALSE, items |-> <<>>],
      channels |-> [throws |-> FALSE, ids |-> Channels]]} \cup
    {[search |-> <<Page(<<"vid1">>, FALSE)>>, videos |-> [throws |-> FALSE, items |-> q],
      channels |-> [throws |-> FALSE, ids |-> Channels]] :
        q \in {x \in SeqsUpTo(WorkflowItems, Cardinality(WorkflowItems)) : DistinctIds(x)}}

Init ==
    /\ mainSheet = <<>>
    /\ stackSheet = <<>>
    /\ statsSheet = <<>>
    /\ now = 0
    /\ pc = "idle"
    /\ idx = 1
    /\ allRawData = <<>>
    /\ todayStr = 0
    /\ historySheet = <<>>
    /\ channelMap = <<>>
    /\ loopPages = 0
    /\ loopIds = <<>>
    /\ invocations = <<>> /\ lastSort = NoSort
    /\ runLog = <<>>
    /\ lastRequest = NoRequest
    /\ before = <<>>
    /\ resp = NoResp
    /\ newRows = <<>>

Idle == pc \in {"idle", "mainDone", "dailyDone", "statsDone"}

Done == pc \in {"mainDone", "dailyDone", "statsDone"}

\* The clock advances between any two steps; a Done state is the instant at
\* which a workflow returns.
Tick ==
    /\ now < MaxTime
    /\ ~Done
    /\ now' = now + 1
    /\ UNCHANGED <<historySheet, channelMap, loopPages, loopIds, invocations, lastSort,
                   todayStr, mainSheet, stackSheet, statsSheet, pc, idx, allRawData, runLog,
                   lastRequest, before, resp, newRows>>

LogEntry(hashtag, outcome, rows) == [hashtag |-> hashtag, outcome |-> outcome, rows |-> rows]

\* a start that empties the main sheet before the fetches
MainStart_clears ==
    /\ Idle
    /\ stackSheet = <<>>
    /\ mainSheet' = <<Header>>
    /\ pc' = "mainLoop"
    /\ idx' = 1
    /\ runLog' = <<>>
    /\ before' = <<>>
    /\ UNCHANGED <<historySheet, channelMap, loopPages, loopIds, invocations, lastSort,
                   todayStr, stackSheet, statsSheet, now, allRawData, lastRequest, resp, newRows>>

MainStart ==
    /\ Idle
    /\ stackSheet = <<>>
    /\ mainSheet' = setupSheetHeaders(mainSheet)
    /\ pc' = "mainLoop"
    /\ idx' = 1
    /\ runLog' = <<>>
    /\ before' = <<>>
    /\ UNCHANGED <<historySheet, channelMap, loopPages, loopIds, invocations, lastSort,
                   todayStr, stackSheet, statsSheet, now, allRawData, lastRequest, resp, newRows>>

\* searchVideosByHashtag without its try/catch: a failed append reaches the
\* catch of main(), which ends the run
searchVideosByHashtag_nocatch(hashtag) ==
    /\ pc = "mainLoop" /\ TARGET_HASHTAGS[idx] = hashtag
    /\ \E r \in WorkflowResponses, storeOk \in BOOLEAN :
          LET publishedAfter == now - LookbackDays * DayLen
              try == FetchTry(hashtag, r, now)
              rows == fetchYouTubeVideoData(hashtag, r, now)
          IN  /\ lastRequest' = [workflow |-> "main", hashtag |-> hashtag,
                                 publishedAfter |-> publishedAfter, at |-> now]
              /\ IF rows # <<>> /\ ~storeOk
                 THEN /\ pc' = "mainDone"
                      /\ UNCHANGED <<mainSheet, runLog, idx>>
                 ELSE /\ mainSheet' = mainSheet \o rows
                      /\ runLog' = Append(runLog,
                             LogEntry(hashtag, IF try.threw THEN "fetchFailed" ELSE "ok", rows))
                      /\ idx' = idx + 1
                      /\ pc' = IF idx = Len(TARGET_HASHTAGS) THEN "mainDedupe" ELSE "mainLoop"
    /\ UNCHANGED <<historySheet, channelMap, loopPages, loopIds, invocations, lastSort,
                   todayStr, stackSheet, statsSheet, now, allRawData, before, resp, newRows>>

\* one iteration of main()'s loop: searchVideosByHashtag(hashtag, sheet)
searchVideosByHashtag(hashtag) ==
    /\ pc = "mainLoop" /\ TARGET_HASHTAGS[idx] = hashtag
    /\ \E r \in WorkflowResponses, storeOk \in BOOLEAN :
          LET publishedAfter == now - LookbackDays * DayLen
              try == FetchTry(hashtag, r, now)
              rows == fetchYouTubeVideoData(hashtag, r, now)
          IN  /\ lastRequest' = [workflow |-> "main", hashtag |-> hashtag,
                                 publishedAfter |-> publishedAfter, at |-> now]
              /\ IF rows # <<>> /\ ~storeOk
                 THEN /\ UNCHANGED mainSheet       \* setValues threw: caught and logged
                      /\ runLog' = Append(runLog, LogEntry(hashtag, "appendFailed", <<>>))
                 ELSE /\ mainSheet' = mainSheet \o rows
                      /\ runLog' = Append(runLog,
                             LogEntry(hashtag, IF try.threw THEN "fetchFailed" ELSE "ok", rows))
    /\ idx' = idx + 1
    /\ pc' = IF idx = Len(TARGET_HASHTAGS) THEN "mainDedupe" ELSE "mainLoop"
    /\ UNCHANGED <<historySheet, channelMap, loopPages, loopIds, invocations, lastSort,
                   todayStr, stackSheet, statsSheet, now, allRawData, before, resp, newRows>>

MainDedupe ==
    /\ pc = "mainDedupe"
    /\ before' = mainSheet
    /\ mainSheet' = removeDuplicateVideos(mainSheet)
    /\ pc' = "mainDone"
    /\ UNCHANGED <<historySheet, channelMap, loopPages, loopIds, invocations, lastSort,
                   todayStr, stackSheet, statsSheet, now, idx, allRawData, runLog, lastRequest,
                   resp, newRows>>

DailyStart ==
    /\ Idle
    /\ mainSheet = <<>>
    /\ Len(DataRows(stackSheet)) <= MaxStackRows
    /\ stackSheet' = setupSheetHeaders(stackSheet)
    /\ pc' = "dailyLoop"
    /\ idx' = 1
    /\ runLog' = <<>>
    /\ before' = <<>>
    /\ UNCHANGED <<historySheet, channelMap, loopPages, loopIds, invocations, lastSort,
                   todayStr, mainSheet, statsSheet, now, allRawData, lastRequest, resp, newRows>>

\* one iteration of dailyUpdate()'s loop: searchAndAppendVideos(hashtag, sheet)
searchAndAppendVideos(hashtag) ==
    /\ pc = "dailyLoop" /\ TARGET_HASHTAGS[idx] = hashtag
    /\ \E r \in WorkflowResponses, storeOk \in BOOLEAN :
          LET publishedAfter == now - LookbackDays * DayLen
              try == FetchTry(hashtag, r, now)
              rows == fetchYouTubeVideoData(hashtag, r, now)
          IN  /\ lastRequest' = [workflow |-> "daily", hashtag |-> hashtag,
                                 publishedAfter |-> publishedAfter, at |-> now]
              /\ IF rows # <<>> /\ ~storeOk
                 THEN /\ UNCHANGED stackSheet      \* setValues threw: caught and logged
                      /\ runLog' = Append(runLog, LogEntry(hashtag, "appendFailed", <<>>))
                 ELSE /\ stackSheet' = stackSheet \o rows
                      /\ runLog' = Append(runLog,
                             LogEntry(hashtag, IF try.threw THEN "fetchFailed" ELSE "ok", rows))
    /\ idx' = idx + 1
    /\ pc' = IF idx = Len(TARGET_HASHTAGS) THEN "dailyDedupe" ELSE "dailyLoop"
    /\ UNCHANGED <<historySheet, channelMap, loopPages, loopIds, invocations, lastSort,
                   todayStr, mainSheet, statsSheet, now, allRawData, before, resp, newRows>>

DailyDedupe ==
    /\ pc = "dailyDedupe"
    /\ before' = stackSheet
    /\ stackSheet' = removeDailyDuplicates(stackSheet, now)
    /\ pc' = "dailyDone"
    /\ UNCHANGED <<historySheet, channelMap, loopPages, loopIds, invocations, lastSort,
                   todayStr, mainSheet, statsSheet, now, idx, allRawData, runLog, lastRequest,
                   resp, newRows>>

main ==
    \/ MainStart
    \/ \E hashtag \in Hashtags : searchVideosByHashtag(hashtag)
    \/ MainDedupe

dailyUpdate ==
    \/ DailyStart
    \/ \E hashtag \in Hashtags : searchAndAppendVideos(hashtag)
    \/ DailyDedupe

Next == Tick \/ main \/ dailyUpdate

Spec == Init /\ [][Next]_vars

----------------------------------------------------------------------------
(* Claims about the workflows *)

OlderRows(sheet, today) == SelectSeq(DataRows(sheet), LAMBDA row : row.fetchedAt < today)

\* C2: removeDailyDuplicates neither deletes nor alters a row fetched before
\* the start of the current day, wherever it sits in the stacking sheet.
C2_DailyDedupeKeepsOlderRows ==
    pc = "dailyDone" =>
        OlderRows(stackSheet, StartOfDay(now)) = OlderRows(before, StartOfDay(now))

\* C3: after removeDailyDuplicates each videoId occurs once among the rows
\* fetched today, and its row carries the greatest fetchedAt that today's rows
\* of the videoId had.
C3_DailyDedupeResult ==
    pc = "dailyDone" =>
        LET inp == TodayData(before, StartOfDay(now))
            out == TodayData(stackSheet, StartOfDay(now))
        IN  \A v \in VideoIdsOf(inp) :
                /\ Cardinality(IndexesOf(out, v)) = 1
                /\ \A k \in IndexesOf(out, v) : \A i \in IndexesOf(inp, v) :
                       out[k].fetchedAt >= inp[i].fetchedAt

NoSharedVideoId(rows) ==
    \A i, j \in DOMAIN rows : i # j => rows[i].videoId # rows[j].videoId

\* C5: when a run of main() completes, the main sheet has the header in
\* row 1 and no two data rows share a videoId.
C5_MainSheetUnique ==
    pc = "mainDone" => (Head(mainSheet) = Header /\ NoSharedVideoId(DataRows(mainSheet)))

\* C5 witness: a run of main() completed whose dedupe found three rows of one
\* videoId, one of them stored by an earlier run, and left two data rows.
C5_Witness ==
    /\ pc = "mainDone"
    /\ Len(DataRows(mainSheet)) = 2
    /\ \E i, j, k \in DOMAIN DataRows(before) :
           /\ i < j /\ j < k
           /\ DataRows(before)[i].videoId = DataRows(before)[j].videoId
           /\ DataRows(before)[j].videoId = DataRows(before)[k].videoId
           /\ DataRows(before)[i].fetchedAt < DataRows(before)[j].fetchedAt

SheetOf(workflowDone) == IF workflowDone = "mainDone" THEN mainSheet ELSE stackSheet

SomeFailed(log) == \E i \in DOMAIN log : log[i].outcome # "ok"

\* a fetched row is in the store: the row itself or, when the dedupe chose
\* between rows of the same video, one at least as recent
InStore(row, sheet) ==
    \E k \in DOMAIN DataRows(sheet) :
        /\ DataRows(sheet)[k].videoId = row.videoId
        /\ DataRows(sheet)[k].fetchedAt >= row.fetchedAt

\* C7: when main() or dailyUpdate() ends after the fetch or the append of a
\* hashtag failed, every configured hashtag was processed, the dedupe step
\* ran, and the rows of the hashtags that did not fail are in the store.
C7_PartialFailureIsolation ==
    (pc \in {"mainDone", "dailyDone"} /\ SomeFailed(runLog)) =>
        /\ Len(runLog) = Len(TARGET_HASHTAGS)
        /\ \A i \in DOMAIN runLog : runLog[i].hashtag = TARGET_HASHTAGS[i]
        /\ before # <<>>
        /\ \A i \in DOMAIN runLog :
               runLog[i].outcome = "ok" =>
                   \A k \in DOMAIN runLog[i].rows : InStore(runLog[i].rows[k], SheetOf(pc))

\* C7 witness: a dailyUpdate() ended in which the first hashtag failed and the
\* second one stored rows, on a sheet that already held rows.
C7_Witness ==
    /\ pc = "dailyDone"
    /\ Len(runLog) = 2
    /\ runLog[1].outcome # "ok"
    /\ runLog[2].outcome = "ok" /\ Len(runLog[2].rows) = 2
    /\ Len(DataRows(stackSheet)) > 2

\* C9: every fetch of the daily-incremental workflow asks for videos
\* published since the start of the current day; the full sync asks for the
\* last 365 days.
C9_DailyLookbackIsStartOfDay ==
    /\ lastRequest.workflow = "daily" =>
           lastRequest.publishedAfter = StartOfDay(lastRequest.at)
    /\ lastRequest.workflow = "main" =>
           lastRequest.publishedAfter = lastRequest.at - LookbackDays * DayLen

----------------------------------------------------------------------------
(* updateDailyStats *)

\* a row of the statistics sheet; date is the day, written as its first tick
StatsHeader == [date |-> -1, hashtag |-> "hashtag", category |-> "category",
                videoCount |-> -1, channelCount |-> -1, totalViews |-> -1]

RECURSIVE MapViews(_)
MapViews(rows) ==
    IF rows = <<>> THEN <<>> ELSE <<Head(rows).viewCount>> \o MapViews(Tail(rows))

\* a channel count that counts rows instead of distinct titles
StatsRow_countsRows(hashtag, category, data, date) ==
    LET videos == SelectSeq(data, LAMBDA row : row.hashtag = hashtag /\ row.category = category)
    IN  [date |-> date, hashtag |-> hashtag, category |-> category,
         videoCount |-> Len(videos),
         channelCount |-> Len(videos),
         totalViews |-> SeqSum(MapViews(videos))]

\* filter, new Set(...).size and reduce for one hashtag and one category
StatsRow(hashtag, category, data, date) ==
    LET videos == SelectSeq(data, LAMBDA row : row.hashtag = hashtag /\ row.category = category)
    IN  [date |-> date, hashtag |-> hashtag, category |-> category,
         videoCount |-> Len(videos),
         channelCount |-> Cardinality({videos[i].channelTitle : i \in DOMAIN videos}),
         totalViews |-> SeqSum(MapViews(videos))]

\* an aggregation that leaves out the rows without videos
StatsRowsFor_sparse(hashtag, data, date) ==
    SelectSeq(<<StatsRow(hashtag, REGULAR, data, date), StatsRow(hashtag, SHORT, data, date)>>,
              LAMBDA row : row.videoCount > 0)

\* the two appendRow calls of one loop iteration: regular first, short second
StatsRowsFor(hashtag, data, date) ==
    <<StatsRow(hashtag, REGULAR, data, date), StatsRow(hashtag, SHORT, data, date)>>

\* an aggregation over the fetched records after a dedupe by videoId
RECURSIVE StatsRowsFrom_deduped(_, _, _)
StatsRowsFrom_deduped(i, data, date) ==
    IF i > Len(TARGET_HASHTAGS) THEN <<>>
    ELSE StatsRowsFor(TARGET_HASHTAGS[i], KeepFirstPerVideoId(data, {}), date)
             \o StatsRowsFrom_deduped(i + 1, data, date)

RECURSIVE StatsRowsFrom(_, _, _)
StatsRowsFrom(i, data, date) ==
    IF i > Len(TARGET_HASHTAGS) THEN <<>>
    ELSE StatsRowsFor(TARGET_HASHTAGS[i], data, date) \o StatsRowsFrom(i + 1, data, date)

\* the order of the sheet's sort on text: REGULAR and SHORT stand for the
\* labels of the source, of which the one for short videos sorts first
HashtagRank(h) == CHOOSE i \in DOMAIN TARGET_HASHTAGS : TARGET_HASHTAGS[i] = h
CategoryRank(c) == IF c = SHORT THEN 1 ELSE 2

\* a goes before b: date descending, hashtag ascending, category ascending
StatsBefore(a, b) ==
    \/ a.date > b.date
    \/ a.date = b.date /\ HashtagRank(a.hashtag) < HashtagRank(b.hashtag)
    \/ /\ a.date = b.date /\ a.hashtag = b.hashtag
       /\ CategoryRank(a.category) < CategoryRank(b.category)

RECURSIVE InsertStats(_, _)
InsertStats(sorted, r) ==
    IF sorted = <<>> THEN <<r>>
    ELSE IF StatsBefore(r, Head(sorted)) THEN <<r>> \o sorted
    ELSE <<Head(sorted)>> \o InsertStats(Tail(sorted), r)

RECURSIVE SortStatsFrom(_, _)
SortStatsFrom(sorted, rest) ==
    IF rest = <<>> THEN sorted
    ELSE SortStatsFrom(InsertStats(sorted, Head(rest)), Tail(rest))

RECURSIVE KeepLastPerKey(_)
KeepLastPerKey(rows) ==
    IF rows = <<>> THEN <<>>
    ELSE IF \E k \in DOMAIN Tail(rows) :
                /\ Tail(rows)[k].date = Head(rows).date
                /\ Tail(rows)[k].hashtag = Head(rows).hashtag
                /\ Tail(rows)[k].category = Head(rows).category
         THEN KeepLastPerKey(Tail(rows))
         ELSE <<Head(rows)>> \o KeepLastPerKey(Tail(rows))

\* no sort: the appended rows stay below the rows found
SortStatsSheet_unsorted(sheet) == sheet

\* a sort that merges the rows of one date, hashtag and category into the last
SortStatsSheet_mergesSameDay(sheet) ==
    <<Head(sheet)>> \o KeepLastPerKey(SortStatsFrom(<<>>, Tail(sheet)))

\* getRange(2, 1, lastRow - 1, 6).sort([...]): rows of equal keys keep their order
SortStatsSheet(sheet) == <<Head(sheet)>> \o SortStatsFrom(<<>>, Tail(sheet))

----------------------------------------------------------------------------
(* Specification SpecStats: updateDailyStats() run after run while the      *)
(* clock advances: a start step, one fetch per hashtag, the aggregation.    *)

StatsItems == {Video("vid1", TRUE, "a", "ch1", TRUE, "100"),
               Video("vid2", TRUE, "a", "ch1", TRUE, "150"),
               Video("vid2", TRUE, "a", "ch2", TRUE, "100"),
               Video("vid2", TRUE, "a #shorts", "ch2", TRUE, "150"),
               Video("vid2", TRUE, "a", NoId, TRUE, "x")}

StatsItemLists ==
    {<<>>} \cup
    {<<v>> : v \in {x \in StatsItems : x.id = "vid1" \/ x.title # "a" \/ x.channelId = NoId}} \cup
    {<<v, w>> : v \in {x \in StatsItems : x.id = "vid1"},
                w \in {x \in StatsItems : x.id = "vid2" /\ x.title = "a" /\ x.channelId # NoId}}

StatsResponses ==
    {[search |-> <<ThrowPage>>, videos |-> [throws |-> FALSE, items |-> <<>>],
      channels |-> [throws |-> FALSE, ids |-> Channels]]} \cup
    {[search |-> <<Page(<<"vid1">>, FALSE)>>, videos |-> [throws |-> FALSE, items |-> q],
      channels |-> [throws |-> FALSE, ids |-> Channels]] : q \in StatsItemLists}

StatsStart ==
    /\ Idle
    /\ Len(DataRows(statsSheet)) <= MaxStatsRows
    /\ statsSheet' = IF statsSheet = <<>> THEN <<StatsHeader>> ELSE statsSheet
    /\ before' = statsSheet'
    /\ todayStr' = StartOfDay(now)
    /\ allRawData' = <<>>
    /\ idx' = 1
    /\ pc' = "statsLoop"
    /\ UNCHANGED <<historySheet, channelMap, loopPages, loopIds, invocations, lastSort,
                   mainSheet, stackSheet,
                   now, runLog, lastRequest, resp, newRows>>

StatsFetch(hashtag) ==
    /\ pc = "statsLoop" /\ TARGET_HASHTAGS[idx] = hashtag
    /\ \E r \in StatsResponses :
          LET publishedAfter == now - LookbackDays * DayLen
          IN  /\ allRawData' = allRawData \o fetchYouTubeVideoData(hashtag, r, now)
              /\ lastRequest' = [workflow |-> "stats", hashtag |-> hashtag,
                                 publishedAfter |-> publishedAfter, at |-> now]
    /\ idx' = idx + 1
    /\ pc' = IF idx = Len(TARGET_HASHTAGS) THEN "statsAggregate" ELSE "statsLoop"
    /\ UNCHANGED <<historySheet, channelMap, loopPages, loopIds, invocations, lastSort,
                   todayStr, mainSheet, stackSheet, statsSheet, now, runLog, before,
                   resp, newRows>>

StatsAggregate ==
    /\ pc = "statsAggregate"
    /\ statsSheet' =
          IF allRawData = <<>> THEN statsSheet       \* logged, then "return"
          ELSE SortStatsSheet(statsSheet \o StatsRowsFrom(1, allRawData, todayStr))
    /\ lastSort' =
          IF allRawData = <<>> THEN lastSort
          ELSE \* getRange(2, 1, getLastRow() - 1, 6).sort
               [sheet |-> "stats", firstRow |-> 2, lastRow |-> Len(statsSheet')]
    /\ pc' = "statsDone"
    /\ UNCHANGED <<historySheet, channelMap, loopPages, loopIds, invocations,
                   todayStr, mainSheet, stackSheet, now, idx, allRawData, runLog,
                   lastRequest, before, resp, newRows>>

updateDailyStats ==
    \/ StatsStart
    \/ \E hashtag \in Hashtags : StatsFetch(hashtag)
    \/ StatsAggregate

NextStats == Tick \/ updateDailyStats

SpecStats == Init /\ [][NextStats]_vars

----------------------------------------------------------------------------
(* Claims about updateDailyStats *)

Pairs == Hashtags \X Categories

\* how many rows of the sheet satisfy P
CountRows(sheet, P(_)) == Cardinality({i \in DOMAIN sheet : P(sheet[i])})

OfPair(row, date, pair) ==
    row.date = date /\ row.hashtag = pair[1] /\ row.category = pair[2]

Matching(data, pair) ==
    {i \in DOMAIN data : data[i].hashtag = pair[1] /\ data[i].category = pair[2]}

IsZeroRow(row) == row.videoCount = 0 /\ row.channelCount = 0 /\ row.totalViews = 0

\* the invocation added exactly one row for each (hashtag, category) pair,
\* a row of zeros for a pair without records
OneRowPerPair ==
    /\ Len(statsSheet) = Len(before) + Cardinality(Pairs)
    /\ \A pair \in Pairs :
          /\ CountRows(statsSheet, LAMBDA row : OfPair(row, todayStr, pair)) =
                 CountRows(before, LAMBDA row : OfPair(row, todayStr, pair)) + 1
          /\ Matching(allRawData, pair) = {} =>
                 CountRows(statsSheet, LAMBDA row : OfPair(row, todayStr, pair) /\ IsZeroRow(row)) =
                     CountRows(before, LAMBDA row : OfPair(row, todayStr, pair) /\ IsZeroRow(row)) + 1

RECURSIVE SumViews(_, _)
SumViews(data, I) ==
    IF I = {} THEN 0
    ELSE LET i == CHOOSE k \in I : TRUE
         IN  data[i].viewCount + SumViews(data, I \ {i})

\* C10: the row updateDailyStats emits for a (hashtag, category) pair counts
\* the fetched records of that hashtag and category, sums their viewCount and
\* counts their distinct channel titles.
C10_AggregationCorrect ==
    (pc = "statsDone" /\ allRawData # <<>>) =>
        \A pair \in Pairs :
            LET I == Matching(allRawData, pair)
                IsExpected(row) ==
                    /\ OfPair(row, todayStr, pair)
                    /\ row.videoCount = Cardinality(I)
                    /\ row.totalViews = SumViews(allRawData, I)
                    /\ row.channelCount = Cardinality({allRawData[i].channelTitle : i \in I})
            IN  /\ CountRows(statsSheet, IsExpected) = CountRows(before, IsExpected) + 1
                /\ CountRows(statsSheet, LAMBDA row : OfPair(row, todayStr, pair)) =
                       CountRows(before, LAMBDA row : OfPair(row, todayStr, pair)) + 1

\* C10 witness: an invocation emitted a row for two records of one channel
\* (250 views in all) and a row for two records of two channels.
C10_Witness ==
    /\ pc = "statsDone"
    /\ \E i \in DOMAIN statsSheet :
           /\ statsSheet[i].videoCount = 2 /\ statsSheet[i].channelCount = 1
           /\ statsSheet[i].totalViews = 250
    /\ \E i \in DOMAIN statsSheet :
           statsSheet[i].videoCount = 2 /\ statsSheet[i].channelCount = 2

----------------------------------------------------------------------------
(* Specification SpecStatsOverMain: updateDailyStats() run after run on a   *)
(* spreadsheet whose main sheet already holds what earlier runs of main()   *)
(* left there.                                                              *)

MainTables ==
    {<<>>,
     <<Header, Row(0, "#B", "vid2", SHORT, "ch2", 150), Row(0, "#A", "vid1", REGULAR, "ch1", 100)>>}

InitStatsOverMain ==
    /\ mainSheet \in MainTables
    /\ stackSheet = <<>>
    /\ statsSheet = <<>>
    /\ now = 0
    /\ pc = "idle"
    /\ idx = 1
    /\ allRawData = <<>>
    /\ todayStr = 0
    /\ historySheet = <<>>
    /\ channelMap = <<>>
    /\ loopPages = 0
    /\ loopIds = <<>>
    /\ invocations = <<>> /\ lastSort = NoSort
    /\ runLog = <<>>
    /\ lastRequest = NoRequest
    /\ before = <<>>
    /\ resp = NoResp
    /\ newRows = <<>>

SpecStatsOverMain == InitStatsOverMain /\ [][NextStats]_vars

RECURSIVE MapVideoCount(_)
MapVideoCount(rows) ==
    IF rows = <<>> THEN <<>> ELSE <<Head(rows).videoCount>> \o MapVideoCount(Tail(rows))

\* the sum of videoCount over the rows of the statistics sheet that satisfy P
SumVideoCount(sheet, P(_)) == SeqSum(MapVideoCount(SelectSeq(DataRows(sheet), P)))

\* C11: the rows one invocation of updateDailyStats emits count every record
\* the per-hashtag fetches returned, a video returned for two hashtags once
\* under each: the emitted videoCount of a hashtag is the number of records
\* fetched for it, the emitted videoCount in all is the number of records
\* fetched in all, whatever the main sheet holds.
C11_AggregatesRawFetches ==
    (pc = "statsDone" /\ allRawData # <<>>) =>
        /\ SumVideoCount(statsSheet, LAMBDA row : TRUE) =
               SumVideoCount(before, LAMBDA row : TRUE) + Len(allRawData)
        /\ \A h \in Hashtags :
               SumVideoCount(statsSheet, LAMBDA row : row.hashtag = h) =
                   SumVideoCount(before, LAMBDA row : row.hashtag = h) +
                   Cardinality({i \in DOMAIN allRawData : allRawData[i].hashtag = h})

\* C11 witness: an invocation ended whose fetches returned vid1 for both
\* hashtags while the main sheet already held a row of vid1.
C11_Witness ==
    /\ pc = "statsDone"
    /\ \E k \in DOMAIN DataRows(mainSheet) : DataRows(mainSheet)[k].videoId = "vid1"
    /\ \A h \in Hashtags :
           \E i \in DOMAIN allRawData :
               allRawData[i].hashtag = h /\ allRawData[i].videoId = "vid1"

\* C16: an invocation of updateDailyStats leaves the header in row 1 and
\* every statistics row it found in the sheet with the same values (as many
\* copies of each as before, perhaps in other places); it adds rows or none,
\* also on a day that already has rows.
C16_StatsAppendOnly ==
    pc = "statsDone" =>
        /\ Head(statsSheet) = StatsHeader
        /\ Len(statsSheet) >= Len(before)
        /\ \A i \in DOMAIN before :
               CountRows(statsSheet, LAMBDA row : row = before[i]) >=
                   CountRows(before, LAMBDA row : row = before[i])

\* C16 witness: a second invocation on the same day left two rows of one
\* date, hashtag and category with different counts in the sheet.
C16_Witness ==
    /\ pc = "statsDone"
    /\ Len(statsSheet) > Len(before) /\ Len(before) > 1
    /\ \E i, j \in DOMAIN statsSheet :
           /\ i # j
           /\ statsSheet[i].date = todayStr /\ statsSheet[j].date = todayStr
           /\ statsSheet[i].hashtag = statsSheet[j].hashtag
           /\ statsSheet[i].category = statsSheet[j].category
           /\ statsSheet[i].videoCount # statsSheet[j].videoCount

----------------------------------------------------------------------------
(* updateSubscriberHistory                                                  *)
(*                                                                          *)
(* The routine finds its columns by header text and tests the type of each  *)
(* cell it reads. For it the main sheet is written cell by cell: row 1 is   *)
(* the sequence of header texts, a data row is the sequence of its cells.   *)
(* A cell is [kind, n, text]: the number n, the number NaN, or a text (""   *)
(* for an empty cell). Header texts are written as the names of their       *)
(* columns. A row of the history sheet is [date, channelTitle,              *)
(* subscriberCount, viewCount], each a cell. Counts are whole numbers, on   *)
(* which Math.floor changes nothing.                                        *)

Number(n) == [kind |-> "number", n |-> n, text |-> ""]
NaN == [kind |-> "NaN", n |-> 0, text |-> ""]
Text(t) == [kind |-> "string", n |-> 0, text |-> t]

\* typeof cell === "number" && !Number.isNaN(cell)
IsNumber(cell) == cell.kind \in {"number", "NaN"} /\ cell.kind # "NaN"

\* the truth value of a cell in a condition
Truthy(cell) ==
    CASE cell.kind = "number" -> cell.n # 0
      [] cell.kind = "NaN" -> FALSE
      [] OTHER -> cell.text # ""

HistoryHeader == [date |-> Text("date"), channelTitle |-> Text("channelTitle"),
                  subscriberCount |-> Text("subscriberCount"), viewCount |-> Text("viewCount")]

SetMin(S) == CHOOSE m \in S : \A x \in S : m <= x

\* a lookup that falls back on the first column when the header is absent
getColumnIndexByHeader_firstColumn(sheet, headerText) ==
    LET found == {i \in DOMAIN sheet[1] : sheet[1][i] = headerText}
    IN  [threw |-> FALSE, index |-> IF found = {} THEN 1 ELSE SetMin(found)]

\* [threw, index]: whether the lookup throws, else the position of the first
\* header cell equal to headerText (positions start at 1)
getColumnIndexByHeader(sheet, headerText) ==
    LET found == {i \in DOMAIN sheet[1] : sheet[1][i] = headerText}
    IN  [threw |-> found = {}, index |-> IF found = {} THEN 0 ELSE SetMin(found)]

\* a loop body that folds every row with a channel title, whatever its cells
FoldRow_anyType(map, row, channelTitleCol, subscriberCountCol, viewCountCol) ==
    LET channelTitle == row[channelTitleCol]
        subscriberCount == row[subscriberCountCol]
        viewCount == row[viewCountCol]
        existing == {k \in DOMAIN map : map[k].title = channelTitle}
    IN  IF Truthy(channelTitle)
        THEN IF existing # {}
             THEN [k \in DOMAIN map |->
                      IF k \in existing
                      THEN [title |-> channelTitle,
                            count |-> IF subscriberCount.n > map[k].count
                                      THEN subscriberCount.n ELSE map[k].count,
                            viewCount |-> map[k].viewCount + viewCount.n]
                      ELSE map[k]]
             ELSE Append(map, [title |-> channelTitle, count |-> subscriberCount.n,
                               viewCount |-> viewCount.n])
        ELSE map

\* a loop body that takes the subscriber count of the latest row of a channel
FoldRow_latest(map, row, channelTitleCol, subscriberCountCol, viewCountCol) ==
    LET channelTitle == row[channelTitleCol]
        subscriberCount == row[subscriberCountCol]
        viewCount == row[viewCountCol]
        currentViewCount == IF IsNumber(viewCount) THEN viewCount.n ELSE 0
        existing == {k \in DOMAIN map : map[k].title = channelTitle}
    IN  IF Truthy(channelTitle) /\ IsNumber(subscriberCount)
        THEN IF existing # {}
             THEN [k \in DOMAIN map |->
                      IF k \in existing
                      THEN [title |-> channelTitle, count |-> subscriberCount.n,
                            viewCount |-> map[k].viewCount + currentViewCount]
                      ELSE map[k]]
             ELSE Append(map, [title |-> channelTitle, count |-> subscriberCount.n,
                               viewCount |-> currentViewCount])
        ELSE map

\* a loop body that also skips the rows whose viewCount is not a number
FoldRow_skipsOnViewCount(map, row, channelTitleCol, subscriberCountCol, viewCountCol) ==
    LET channelTitle == row[channelTitleCol]
        subscriberCount == row[subscriberCountCol]
        viewCount == row[viewCountCol]
        existing == {k \in DOMAIN map : map[k].title = channelTitle}
    IN  IF Truthy(channelTitle) /\ IsNumber(subscriberCount) /\ IsNumber(viewCount)
        THEN IF existing # {}
             THEN [k \in DOMAIN map |->
                      IF k \in existing
                      THEN [title |-> channelTitle,
                            count |-> IF subscriberCount.n > map[k].count
                                      THEN subscriberCount.n ELSE map[k].count,
                            viewCount |-> map[k].viewCount + viewCount.n]
                      ELSE map[k]]
             ELSE Append(map, [title |-> channelTitle, count |-> subscriberCount.n,
                               viewCount |-> viewCount.n])
        ELSE map

\* the body of the loop over data: channelMap after the row is processed.
\* channelMap is written as the sequence of its entries in insertion order.
FoldRow(map, row, channelTitleCol, subscriberCountCol, viewCountCol) ==
    LET channelTitle == row[channelTitleCol]
        subscriberCount == row[subscriberCountCol]
        viewCount == row[viewCountCol]
        currentViewCount == IF IsNumber(viewCount) THEN viewCount.n ELSE 0
        existing == {k \in DOMAIN map : map[k].title = channelTitle}
    IN  IF Truthy(channelTitle) /\ IsNumber(subscriberCount)
        THEN IF existing # {}
             THEN [k \in DOMAIN map |->
                      IF k \in existing
                      THEN [title |-> channelTitle,
                            count |-> IF subscriberCount.n > map[k].count
                                      THEN subscriberCount.n ELSE map[k].count,
                            viewCount |-> map[k].viewCount + currentViewCount]
                      ELSE map[k]]
             ELSE Append(map, [title |-> channelTitle, count |-> subscriberCount.n,
                               viewCount |-> currentViewCount])
        ELSE map

RECURSIVE FoldRows(_, _, _, _, _)
FoldRows(map, data, channelTitleCol, subscriberCountCol, viewCountCol) ==
    IF data = <<>> THEN map
    ELSE FoldRows(FoldRow(map, Head(data), channelTitleCol, subscriberCountCol, viewCountCol),
                  Tail(data), channelTitleCol, subscriberCountCol, viewCountCol)

\* Array.from(channelMap.entries()).map(...): the snapshot rows, dated date
SnapshotRows(map, date) ==
    [k \in DOMAIN map |->
        [date |-> Number(date), channelTitle |-> map[k].title,
         subscriberCount |-> Number(map[k].count), viewCount |-> Number(map[k].viewCount)]]

\* the order of the sheet's sort on texts
TextRank(t) ==
    CASE t = "ch1" -> 1
      [] t = "ch2" -> 2
      [] t = "channelTitle" -> 3
      [] OTHER -> 4

\* the ascending order of the sheet's sort on cells: numbers by value, then texts
CellLess(x, y) ==
    IF x.kind = "number" /\ y.kind = "number" THEN x.n < y.n
    ELSE IF x.kind = "number" THEN TRUE
    ELSE IF y.kind = "number" THEN FALSE
    ELSE TextRank(x.text) < TextRank(y.text)

\* a goes before b: date descending, channel title ascending
HistoryBefore(a, b) ==
    \/ CellLess(b.date, a.date)
    \/ /\ ~CellLess(a.date, b.date) /\ ~CellLess(b.date, a.date)
       /\ CellLess(a.channelTitle, b.channelTitle)

RECURSIVE InsertHistory(_, _)
InsertHistory(sorted, r) ==
    IF sorted = <<>> THEN <<r>>
    ELSE IF HistoryBefore(r, Head(sorted)) THEN <<r>> \o sorted
    ELSE <<Head(sorted)>> \o InsertHistory(Tail(sorted), r)

RECURSIVE SortHistoryFrom(_, _)
SortHistoryFrom(sorted, rest) ==
    IF rest = <<>> THEN sorted
    ELSE SortHistoryFrom(InsertHistory(sorted, Head(rest)), Tail(rest))

RECURSIVE KeepFirstPerTitle(_, _)
KeepFirstPerTitle(rows, seen) ==
    IF rows = <<>> THEN <<>>
    ELSE IF Head(rows).channelTitle \in seen THEN KeepFirstPerTitle(Tail(rows), seen)
    ELSE <<Head(rows)>> \o KeepFirstPerTitle(Tail(rows), seen \cup {Head(rows).channelTitle})

\* a re-sort in which the header texts go below the dates
SortHistorySheet_headerLast(sheet) == SortHistoryFrom(<<>>, Tail(sheet)) \o <<Head(sheet)>>

\* a re-sort that keeps the newest row of each channel only
SortHistorySheet_latestPerChannel(sheet) == KeepFirstPerTitle(SortHistoryFrom(<<>>, sheet), {})

\* sheet.getDataRange().sort([...]): the range starts at row 1; rows of equal
\* keys keep their order
SortHistorySheet(sheet) == SortHistoryFrom(<<>>, sheet)

----------------------------------------------------------------------------
(* Specification SpecHistory: updateSubscriberHistory() run after run while *)
(* the clock advances, on a main sheet that holds a header and up to        *)
(* MaxMainRows data rows, or does not exist.                                *)

MainHeaders ==
    {<<"fetchedAt", "channelTitle", "subscriberCount", "viewCount">>,
     <<"viewCount", "fetchedAt", "subscriberCount", "channelTitle">>,
     <<"fetchedAt", "subscriberCount", "viewCount">>,
     <<"fetchedAt", "channelTitle", "viewCount">>,
     <<"fetchedAt", "channelTitle", "subscriberCount">>}

\* the cells of a main-sheet row by column name
MainRow(title, subscribers, views) ==
    [fetchedAt |-> Number(0), channelTitle |-> title, subscriberCount |-> subscribers,
     viewCount |-> views]

MainRows ==
    {MainRow(Text("ch1"), Number(4000), Number(150)),
     MainRow(Text("ch1"), Number(5000), Number(100)),
     MainRow(Text("ch1"), Number(6000), Number(100)),
     MainRow(Text("ch1"), Number(6000), Text("n/a")),
     MainRow(Text("ch1"), NaN, Number(100)),
     MainRow(Text("ch2"), Number(5000), Number(100)),
     MainRow(Text("ch2"), Text("n/a"), Number(100)),
     MainRow(Text(""), Number(5000), Number(100))}

\* the cells of a row in the order of the header
LayOut(headers, row) == [i \in DOMAIN headers |-> row[headers[i]]]

\* the columns are in the order of the source's header row under up to
\* MaxMainRows data rows; a header row in another order, or one that lacks a
\* column, comes with one data row at most
CellTables ==
    {<<>>} \cup
    {<<headers>> \o [i \in DOMAIN rows |-> LayOut(headers, rows[i])] :
        headers \in {h \in MainHeaders : h[1] = "fetchedAt" /\ Len(h) = 4},
        rows \in SeqsUpTo(MainRows, MaxMainRows)} \cup
    {<<headers>> \o [i \in DOMAIN rows |-> LayOut(headers, rows[i])] :
        headers \in MainHeaders, rows \in SeqsUpTo(MainRows, 1)}

InitHistory ==
    /\ mainSheet \in CellTables
    /\ stackSheet = <<>>
    /\ statsSheet = <<>>
    /\ now = 0
    /\ pc = "idle"
    /\ idx = 1
    /\ allRawData = <<>>
    /\ todayStr = 0
    /\ historySheet = <<>>
    /\ channelMap = <<>>
    /\ loopPages = 0
    /\ loopIds = <<>>
    /\ invocations = <<>> /\ lastSort = NoSort
    /\ runLog = <<>>
    /\ lastRequest = NoRequest
    /\ before = <<>>
    /\ resp = NoResp
    /\ newRows = <<>>

updateSubscriberHistory ==
    /\ pc \in {"idle", "historyDone", "historyThrew"}
    /\ Len(DataRows(historySheet)) <= MaxHistoryRows
    /\ before' = historySheet
    /\ LET sheet == IF historySheet = <<>> THEN <<HistoryHeader>> ELSE historySheet
       IN  IF mainSheet = <<>>
           THEN \* no main sheet: logged, then "return"
                /\ historySheet' = sheet
                /\ channelMap' = <<>>
                /\ pc' = "historyDone"
                /\ UNCHANGED lastSort
           ELSE LET channelTitleCol == getColumnIndexByHeader(mainSheet, "channelTitle")
                    subscriberCountCol == getColumnIndexByHeader(mainSheet, "subscriberCount")
                    viewCountCol == getColumnIndexByHeader(mainSheet, "viewCount")
                IN  IF \/ channelTitleCol.threw \/ subscriberCountCol.threw \/ viewCountCol.threw
                       \/ Len(mainSheet) = 1     \* getRange(2, 1, 0, ...) throws
                    THEN /\ historySheet' = sheet
                         /\ channelMap' = <<>>
                         /\ pc' = "historyThrew"
                         /\ UNCHANGED lastSort
                    ELSE LET map == FoldRows(<<>>, Tail(mainSheet), channelTitleCol.index,
                                             subscriberCountCol.index, viewCountCol.index)
                             rows == SnapshotRows(map, now)
                         IN  /\ historySheet' = IF rows # <<>>
                                                THEN SortHistorySheet(sheet \o rows)
                                                ELSE sheet
                             /\ channelMap' = map
                             /\ pc' = "historyDone"
                             /\ lastSort' =
                                   IF rows # <<>>
                                   THEN \* getDataRange().sort
                                        [sheet |-> "history", firstRow |-> 1,
                                         lastRow |-> Len(historySheet')]
                                   ELSE lastSort
    /\ UNCHANGED <<mainSheet, stackSheet, statsSheet, now, idx, allRawData, todayStr, runLog,
                   lastRequest, resp, newRows, loopPages, loopIds, invocations>>

NextHistory == Tick \/ updateSubscriberHistory

SpecHistory == InitHistory /\ [][NextHistory]_vars

----------------------------------------------------------------------------
(* Claims about updateSubscriberHistory *)

\* the column of the main sheet under a header text
ColumnOf(headerText) == CHOOSE i \in DOMAIN mainSheet[1] : mainSheet[1][i] = headerText

HeaderLacks(headerText) == \A i \in DOMAIN mainSheet[1] : mainSheet[1][i] # headerText

LacksAColumn ==
    HeaderLacks("channelTitle") \/ HeaderLacks("subscriberCount") \/ HeaderLacks("viewCount")

MainData == Tail(mainSheet)
TitleIn(row) == row[ColumnOf("channelTitle")]
SubscribersIn(row) == row[ColumnOf("subscriberCount")]
ViewsIn(row) == row[ColumnOf("viewCount")]

\* the last invocation read the main sheet and went through the fold
FoldRan == pc = "historyDone" /\ mainSheet # <<>>

\* the channel titles in the data rows of the main sheet (a blank cell is no title)
TitlesInMain == {TitleIn(MainData[i]) : i \in {k \in DOMAIN MainData : Truthy(TitleIn(MainData[k]))}}

\* the rows of a channel that carry a subscriber count
FoldedRows(t) == {i \in DOMAIN MainData : TitleIn(MainData[i]) = t /\ IsNumber(SubscribersIn(MainData[i]))}

\* snapshot rows of channel t the last invocation added
AddedFor(t) ==
    CountRows(historySheet, LAMBDA r : r.channelTitle = t) -
        CountRows(before, LAMBDA r : r.channelTitle = t)

Snapshots(sheet) == {i \in DOMAIN sheet : sheet[i] # HistoryHeader}

\* C12 as stated: updateSubscriberHistory appends exactly one snapshot row
\* for every distinct channel title in the data rows of the main sheet,
\* whatever the other cells of those rows hold.
C12_OneSnapshotPerTitle ==
    FoldRan => \A t \in TitlesInMain : AddedFor(t) = 1

\* C12 as amended: updateSubscriberHistory appends exactly one snapshot row
\* for every channel title that has a data row whose subscriberCount is a
\* number, none for a title whose rows all lack one, and no other row.
C12_OneSnapshotPerCountedTitle ==
    FoldRan =>
        /\ \A t \in TitlesInMain : AddedFor(t) = IF FoldedRows(t) # {} THEN 1 ELSE 0
        /\ Cardinality(Snapshots(historySheet)) =
               Cardinality(Snapshots(before)) +
               Cardinality({t \in TitlesInMain : FoldedRows(t) # {}})

\* C12 witness: a second invocation on a main sheet where one channel has a
\* row with a subscriber count and a row without, and another channel only a
\* row without.
C12_Witness ==
    /\ FoldRan
    /\ Snapshots(before) # {}
    /\ \E t, u \in TitlesInMain :
           /\ FoldedRows(t) # {}
           /\ \E i \in DOMAIN MainData :
                  TitleIn(MainData[i]) = t /\ ~IsNumber(SubscribersIn(MainData[i]))
           /\ FoldedRows(u) = {}

NumericViews(row) == IF IsNumber(ViewsIn(row)) THEN ViewsIn(row).n ELSE 0

RECURSIVE SumNumericViews(_)
SumNumericViews(I) ==
    IF I = {} THEN 0
    ELSE LET i == CHOOSE k \in I : TRUE
         IN  NumericViews(MainData[i]) + SumNumericViews(I \ {i})

\* channelMap after the first k data rows
FoldOfFirst(k) ==
    FoldRows(<<>>, SubSeq(MainData, 1, k), ColumnOf("channelTitle"),
             ColumnOf("subscriberCount"), ColumnOf("viewCount"))

MainDataWithout(i) == SubSeq(MainData, 1, i - 1) \o SubSeq(MainData, i + 1, Len(MainData))

\* the data rows of the main sheet with the viewCount of row i set to 0
MainDataWithZeroViews(i) ==
    [MainData EXCEPT ![i] = [MainData[i] EXCEPT ![ColumnOf("viewCount")] = Number(0)]]

FoldOf(data) ==
    FoldRows(<<>>, data, ColumnOf("channelTitle"), ColumnOf("subscriberCount"),
             ColumnOf("viewCount"))

\* C14 as stated: a main-sheet row whose subscriberCount or viewCount is not
\* a number (or is NaN) is not folded in at all: the fold comes out as it
\* would without the row.
C14_InvalidRowsNotFolded ==
    FoldRan =>
        \A i \in DOMAIN MainData :
            (~IsNumber(SubscribersIn(MainData[i])) \/ ~IsNumber(ViewsIn(MainData[i]))) =>
                channelMap = FoldOf(MainDataWithout(i))

\* C14 as amended: a row whose subscriberCount is not a number (or is NaN) is
\* not folded in at all; a row whose subscriberCount is a number and whose
\* viewCount is not is folded in as if its viewCount were 0.
C14_OnlySubscriberCountExcludes ==
    FoldRan =>
        \A i \in DOMAIN MainData :
            /\ ~IsNumber(SubscribersIn(MainData[i])) => channelMap = FoldOf(MainDataWithout(i))
            /\ (IsNumber(SubscribersIn(MainData[i])) /\ ~IsNumber(ViewsIn(MainData[i]))) =>
                   channelMap = FoldOf(MainDataWithZeroViews(i))

\* C14 witness: a fold over a row of 5000 subscribers, a row of the same
\* channel with 6000 subscribers and a viewCount that is no number, and a row
\* without a subscriber count; the channel came out with 6000.
C14_Witness ==
    /\ FoldRan
    /\ \E i, j, k \in DOMAIN MainData :
           /\ SubscribersIn(MainData[i]) = Number(5000) /\ TitleIn(MainData[i]) = Text("ch1")
           /\ SubscribersIn(MainData[j]) = Number(6000) /\ TitleIn(MainData[j]) = Text("ch1")
           /\ ~IsNumber(ViewsIn(MainData[j]))
           /\ ~IsNumber(SubscribersIn(MainData[k])) /\ TitleIn(MainData[k]) = Text("ch1")
    /\ \E e \in DOMAIN channelMap : channelMap[e].count = 6000

\* C15: an invocation of updateSubscriberHistory, whether it returns or
\* throws, leaves every snapshot row it found in the history sheet with the
\* same cells (as many copies of each as before, perhaps in other places) and
\* adds one row per channel in channelMap.
C15_HistoryAppendOnly ==
    pc \in {"historyDone", "historyThrew"} =>
        /\ \A i \in Snapshots(before) :
               CountRows(historySheet, LAMBDA r : r = before[i]) >=
                   CountRows(before, LAMBDA r : r = before[i])
        /\ Cardinality(Snapshots(historySheet)) =
               Cardinality(Snapshots(before)) + Len(channelMap)

\* C15 witness: an invocation at a later date found the snapshot row of an
\* earlier one and put its own row above it.
C15_Witness ==
    /\ pc = "historyDone"
    /\ Len(channelMap) = 1
    /\ Cardinality(Snapshots(before)) = 1
    /\ Len(historySheet) = 3
    /\ historySheet[2] # before[2]
    /\ historySheet[3] = before[2]

\* C17: when the header of the main sheet lacks the channel title, the
\* subscriber count or the view count column, updateSubscriberHistory ends
\* with the error of the lookup and the history sheet holds the snapshot rows
\* it held before, no more.
C17_MissingColumnAborts ==
    (pc \in {"historyDone", "historyThrew"} /\ mainSheet # <<>> /\ LacksAColumn) =>
        /\ pc = "historyThrew"
        /\ Snapshots(historySheet) = Snapshots(before)
        /\ \A i \in Snapshots(before) : historySheet[i] = before[i]

\* C17 witness: the update threw on a main sheet without the view count
\* column whose data rows carry a channel title and a subscriber count.
C17_Witness ==
    /\ pc = "historyThrew"
    /\ HeaderLacks("viewCount") /\ ~HeaderLacks("channelTitle") /\ ~HeaderLacks("subscriberCount")
    /\ \E i \in DOMAIN MainData :
           Truthy(TitleIn(MainData[i])) /\ IsNumber(SubscribersIn(MainData[i]))
    /\ historySheet = <<HistoryHeader>>

----------------------------------------------------------------------------
(* Specification SpecPaging: one call of fetchYouTubeVideoData, one step    *)
(* per Search.list call of its do/while loop and one step for what follows  *)
(* the loop. The provider answers each call as it likes; resp.search keeps  *)
(* the answers given so far.                                                *)

PagingPages == {ThrowPage, EmptyPage, Page(<<"vid1">>, TRUE), Page(<<"vid2">>, FALSE),
                Page(<<NoId>>, FALSE)}

InitPaging ==
    /\ mainSheet = <<>>
    /\ stackSheet = <<>>
    /\ statsSheet = <<>>
    /\ now = 0
    /\ pc = "search"
    /\ idx = 1
    /\ allRawData = <<>>
    /\ todayStr = 0
    /\ historySheet = <<>>
    /\ channelMap = <<>>
    /\ loopPages = 0
    /\ loopIds = <<>>
    /\ invocations = <<>> /\ lastSort = NoSort
    /\ runLog = <<>>
    /\ lastRequest = NoRequest
    /\ before = <<>>
    /\ resp = NoResp
    /\ newRows = <<>>

\* a loop without the page cap in its while condition
SearchPage_uncapped ==
    /\ pc = "search"
    /\ \E page \in PagingPages :
          /\ resp' = [resp EXCEPT !.search = Append(@, page)]
          /\ IF page.throws
             THEN /\ pc' = "returned"
                  /\ UNCHANGED <<loopPages, loopIds>>
             ELSE IF page.items = <<>>
             THEN /\ pc' = "lookup"
                  /\ UNCHANGED <<loopPages, loopIds>>
             ELSE /\ loopIds' = loopIds \o SelectSeq(page.items, LAMBDA id : id # NoId)
                  /\ loopPages' = loopPages + 1
                  /\ pc' = IF page.next THEN "search" ELSE "lookup"
    /\ UNCHANGED <<mainSheet, stackSheet, statsSheet, now, idx, allRawData, todayStr, runLog,
                   lastRequest, before, newRows, historySheet, channelMap, invocations, lastSort>>

\* one pass of the do/while body: the Search.list call, the test for an empty
\* page, the collection of the ids and the while condition. A call that throws
\* reaches the catch block, after which the function returns newRows.
SearchPage ==
    /\ pc = "search"
    /\ \E page \in PagingPages :
          /\ resp' = [resp EXCEPT !.search = Append(@, page)]
          /\ IF page.throws
             THEN /\ pc' = "returned"
                  /\ UNCHANGED <<loopPages, loopIds>>
             ELSE IF page.items = <<>>
             THEN /\ pc' = "lookup"
                  /\ UNCHANGED <<loopPages, loopIds>>
             ELSE /\ loopIds' = loopIds \o SelectSeq(page.items, LAMBDA id : id # NoId)
                  /\ loopPages' = loopPages + 1
                  /\ pc' = IF page.next /\ loopPages + 1 < maxPages THEN "search" ELSE "lookup"
    /\ UNCHANGED <<mainSheet, stackSheet, statsSheet, now, idx, allRawData, todayStr, runLog,
                   lastRequest, before, newRows, historySheet, channelMap, invocations, lastSort>>

\* what follows the loop: the return on an empty id list, Videos.list,
\* Channels.list, the normalization loop and "return newRows"
LookUp ==
    /\ pc = "lookup"
    /\ \E videos \in VideosAnswers(WorkflowItems, MaxItems), channels \in ChannelsAnswers :
          /\ resp' = [resp EXCEPT !.videos = videos, !.channels = channels]
          /\ newRows' =
                IF loopIds = <<>> THEN <<>>
                ELSE IF videos.throws THEN <<>>
                ELSE IF videos.items = <<>> THEN <<>>
                ELSE IF ChannelIdsOf(videos.items) # {} /\ channels.throws THEN <<>>
                ELSE FormatRows(videos.items,
                                IF ChannelIdsOf(videos.items) # {} THEN channels.ids ELSE {},
                                TARGET_HASHTAGS[1], now)
    /\ pc' = "returned"
    /\ UNCHANGED <<mainSheet, stackSheet, statsSheet, now, idx, allRawData, todayStr, runLog,
                   lastRequest, before, historySheet, channelMap, loopPages, loopIds, invocations, lastSort>>

NextPaging == SearchPage \/ LookUp

\* the function runs on until it returns
SpecPaging == InitPaging /\ [][NextPaging]_vars /\ WF_vars(NextPaging)

\* the ids of the pages answered so far, in order
RECURSIVE IdsOfPages(_)
IdsOfPages(pages) ==
    IF pages = <<>> THEN <<>>
    ELSE SelectSeq(Head(pages).items, LAMBDA id : id # NoId) \o IdsOfPages(Tail(pages))

\* a page after which the loop goes on
Continues(page) == ~page.throws /\ page.items # <<>> /\ page.next

PagingBounded ==
    /\ Len(resp.search) <= maxPages
    /\ \A k \in 1..(Len(resp.search) - 1) : Continues(resp.search[k])
    /\ pc = "search" => \A k \in 1..Len(resp.search) : Continues(resp.search[k])
    /\ loopIds = IdsOfPages(resp.search)
    /\ pc \in {"lookup", "returned"} =>
           LET last == resp.search[Len(resp.search)]
               found == SearchLoop(resp.search, 0, <<>>)
           IN  /\ found.calls = Len(resp.search)
               /\ found.ids = loopIds
               /\ found.threw = last.throws
    /\ (/\ pc = "returned" /\ ~resp.search[Len(resp.search)].throws /\ loopIds # <<>>
        /\ ~resp.videos.throws /\ ~resp.channels.throws) =>
           newRows = FormatRows(resp.videos.items,
                                IF ChannelIdsOf(resp.videos.items) # {}
                                    THEN resp.channels.ids ELSE {},
                                TARGET_HASHTAGS[1], now)

\* C18: a call of fetchYouTubeVideoData issues at most maxPages (10) search
\* calls whatever the provider answers, a page that is empty or carries no
\* continuation token is the last one asked for, the ids collected before an
\* empty page are looked up and formatted, and the call returns.
C18_BoundedPagination == []PagingBounded /\ <>(pc = "returned")

\* C18 witness: the provider gave a continuation token on each of ten pages
\* and the call returned rows.
C18_Witness ==
    /\ pc = "returned"
    /\ Len(resp.search) = maxPages
    /\ \A k \in 1..maxPages : Continues(resp.search[k])
    /\ newRows # <<>>

----------------------------------------------------------------------------
(* Specification SpecScenario: records of a tracked hashtag fetched at      *)
(* different times sit in the main sheet; removeDuplicateVideos runs, then  *)
(* the statistics are computed over the deduplicated rows and logged, as    *)
(* testDuplicateStats does after its dedupe.                                *)

ScenarioHashtags == {"#testtag", "#A"}

ScenarioRows ==
    {Row(t, h, v, REGULAR, "ch1", n) :
        t \in 0..MaxTime, h \in ScenarioHashtags, v \in VideoIds, n \in {100, 150}}

InitScenario ==
    /\ mainSheet \in {<<Header>> \o rows : rows \in SeqsUpTo(ScenarioRows, MaxScenarioRows)}
    /\ stackSheet = <<>>
    /\ statsSheet = <<>>
    /\ now = 0
    /\ pc = "input"
    /\ idx = 1
    /\ allRawData = <<>>
    /\ todayStr = 0
    /\ historySheet = <<>>
    /\ channelMap = <<>>
    /\ loopPages = 0
    /\ loopIds = <<>>
    /\ invocations = <<>> /\ lastSort = NoSort
    /\ runLog = <<>>
    /\ lastRequest = NoRequest
    /\ before = mainSheet
    /\ resp = NoResp
    /\ newRows = <<>>

\* the statistics over the deduplicated rows, logged per hashtag and category
AggregateDeduped ==
    /\ pc = "deduped"
    /\ runLog' = [pair \in ScenarioHashtags \X Categories |->
                     StatsRow(pair[1], pair[2], DataRows(mainSheet), StartOfDay(now))]
    /\ pc' = "aggregated"
    /\ UNCHANGED <<mainSheet, stackSheet, statsSheet, now, idx, allRawData, todayStr,
                   lastRequest, before, resp, newRows, historySheet, channelMap, loopPages,
                   loopIds, invocations, lastSort>>

NextScenario == ApplyDedupe \/ AggregateDeduped

SpecScenario == InitScenario /\ [][NextScenario]_vars

\* two records of vid1 under #testtag, regular: the earlier with 100 views,
\* the later with 150
IsScenario(rows) ==
    /\ Len(rows) = 2
    /\ \A i \in DOMAIN rows :
           rows[i].videoId = "vid1" /\ rows[i].hashtag = "#testtag" /\ rows[i].category = REGULAR
    /\ \E i, j \in DOMAIN rows :
           /\ rows[i].fetchedAt < rows[j].fetchedAt
           /\ rows[i].viewCount = 100 /\ rows[j].viewCount = 150

\* C19: from two records of vid1 under #testtag, regular, the earlier with
\* viewCount 100 and the later with viewCount 150 (in either sheet order),
\* the dedupe leaves one row of vid1, with viewCount 150, and the statistics
\* of (#testtag, regular) over the deduplicated rows are videoCount 1,
\* channelCount 1, totalViews 150.
C19_EndToEndScenario ==
    (pc = "aggregated" /\ IsScenario(DataRows(before))) =>
        /\ Cardinality(IndexesOf(DataRows(mainSheet), "vid1")) = 1
        /\ \A k \in IndexesOf(DataRows(mainSheet), "vid1") :
               DataRows(mainSheet)[k].viewCount = 150
        /\ runLog[<<"#testtag", REGULAR>>].videoCount = 1
        /\ runLog[<<"#testtag", REGULAR>>].channelCount = 1
        /\ runLog[<<"#testtag", REGULAR>>].totalViews = 150

\* C19 witness: the scenario was deduplicated and aggregated, the earlier
\* record standing first in the sheet.
C19_Witness ==
    /\ pc = "aggregated"
    /\ IsScenario(DataRows(before))
    /\ DataRows(before)[1].fetchedAt < DataRows(before)[2].fetchedAt

-----------------------------------------------------------------------------
(* The category of one record: the isShort test over the title and the
   description of a snippet, either of which may be absent. *)

SnippetTexts ==
    { Absent,
      Text_(<<>>),
      Text_(<<"a">>),
      Text_(<<"s", "h", "o", "r", "t">>),
      Text_(<<"s", "h", "r", "o", "t", "s">>),
      Text_(<<"#", "s", "h", "o", "r", "t", "s">>),
      Text_(<<"a", " ", "#", "s", "h", "o", "r", "t", "s">>),
      Text_(<<"#", "S", "h", "o", "r", "t", "s">>),
      Text_(<<"S", "H", "O", "R", "T", "S">>),
      Text_(<<"S", "h", "o", "r", "t", "s", " ", "b">>),
      Text_(<<"m", "y", "s", "H", "o", "R", "t", "S", "!">>),
      Text_(<<"s", "h", "o", "r", "t", " ", "s">>) }

InitClassify ==
    /\ resp \in [title : SnippetTexts, description : SnippetTexts]
    /\ newRows = <<>>
    /\ pc = "snippet"
    /\ mainSheet = <<>> /\ stackSheet = <<>> /\ statsSheet = <<>>
    /\ historySheet = <<>>
    /\ now = 0 /\ idx = 1 /\ allRawData = <<>> /\ todayStr = 0 /\ runLog = <<>>
    /\ lastRequest = NoRequest /\ before = <<>>
    /\ channelMap = <<>> /\ loopPages = 0 /\ loopIds = <<>>
    /\ invocations = <<>> /\ lastSort = NoSort

\* the category cell of the row built from the snippet
Categorize ==
    /\ pc = "snippet"
    /\ newRows' = <<IF isShort(resp.title, resp.description) THEN SHORT ELSE REGULAR>>
    /\ pc' = "categorized"
    /\ UNCHANGED <<mainSheet, stackSheet, statsSheet, now, idx, allRawData, todayStr, runLog,
                   lastRequest, before, resp, historySheet, channelMap, loopPages, loopIds, invocations, lastSort>>

NextClassify == Categorize

SpecClassify == InitClassify /\ [][NextClassify]_vars

\* the letters of "shorts" in either case
MarkerLetters == <<{"s", "S"}, {"h", "H"}, {"o", "O"}, {"r", "R"}, {"t", "T"}, {"s", "S"}>>

HasMarker(text) ==
    /\ text.present
    /\ \E i \in 1..Len(text.chars) :
           /\ i + 5 <= Len(text.chars)
           /\ \A k \in 1..6 : text.chars[i + k - 1] \in MarkerLetters[k]

HasLiteralMarker(text) ==
    /\ text.present
    /\ \E i \in 1..Len(text.chars) :
           /\ i + 6 <= Len(text.chars)
           /\ text.chars[i] = "#"
           /\ \A k \in 1..6 : text.chars[i + k] = Shorts[k]

\* C21: a record is SHORT if and only if "shorts", in any mix of upper and
\* lower case, occurs in its title or in its description; the literal
\* "#shorts" is one such occurrence; a record with no occurrence in either
\* field is REGULAR.
C21_ShortIffMarker ==
    pc = "categorized" =>
        /\ newRows[1] \in {SHORT, REGULAR}
        /\ newRows[1] = SHORT <=> (HasMarker(resp.title) \/ HasMarker(resp.description))
        /\ (HasLiteralMarker(resp.title) \/ HasLiteralMarker(resp.description)) =>
               newRows[1] = SHORT

\* C21 witness: a record was categorized SHORT whose title is absent and whose
\* description carries the marker in upper case only.
C21_Witness ==
    /\ pc = "categorized"
    /\ newRows = <<SHORT>>
    /\ ~resp.title.present
    /\ resp.description = Text_(<<"S", "H", "O", "R", "T", "S">>)

-----------------------------------------------------------------------------
(* Specification SpecConcurrent: two invocations of main() on the same     *)
(* spreadsheet, interleaved store operation by store operation.  A fetch   *)
(* touches no shared state and is one step with the getLastRow() call that *)
(* follows it.  Both invocations run at the clock instant 0, so all rows   *)
(* compare equal in the sort of removeDuplicateVideos; a blank row, whose  *)
(* date is invalid, makes the comparator yield NaN, which sort reads as 0. *)
(*                                                                          *)
(* The local state of an invocation:                                        *)
(*   pc, idx  - its position in main() and in the loop over TARGET_HASHTAGS *)
(*   lastRow  - the value getLastRow() returned to it                       *)
(*   newRows  - the rows it fetched and has still to write                  *)
(*   data     - what getDataRange().getValues() returned to it              *)
(*   stored   - the videoIds of the rows it has written with setValues      *)
(*   missed   - the videoIds the other invocation wrote between this        *)
(*              invocation's read of the sheet and its rewrite              *)
(*   stale    - whether the other invocation ever wrote to the sheet while  *)
(*              this one held a row number or the data it had read          *)

Invocations == {1, 2}

\* a row of empty cells
Blank == Row(0, "", "", "", "", 0)

RECURSIVE TrimBlank(_)
\* the sheet up to getLastRow(): trailing rows of empty cells do not count
TrimBlank(sheet) ==
    IF sheet = <<>> THEN <<>>
    ELSE IF sheet[Len(sheet)] = Blank THEN TrimBlank(SubSeq(sheet, 1, Len(sheet) - 1))
    ELSE sheet

\* a variant of setValues that replaces the content of the sheet by the rows written
setValues_replaces(sheet, firstRow, rows) ==
    [i \in 1..(firstRow - 1) |-> Blank] \o rows

\* getRange(firstRow, 1, rows.length, ..).setValues(rows): the cells of the
\* range are overwritten, the rows between the old last row and the range
\* stay empty
setValues(sheet, firstRow, rows) ==
    LET last == IF Len(sheet) > firstRow - 1 + Len(rows) THEN Len(sheet)
                ELSE firstRow - 1 + Len(rows)
    IN  TrimBlank([i \in 1..last |->
                      IF i >= firstRow /\ i < firstRow + Len(rows) THEN rows[i - firstRow + 1]
                      ELSE IF i <= Len(sheet) THEN sheet[i]
                      ELSE Blank])

\* getDataRange().getValues(): one row of empty cells on an empty sheet
getValues(sheet) == IF sheet = <<>> THEN <<Blank>> ELSE sheet

\* uniqueData of removeDuplicateVideos over the values read
uniqueData(data) == <<Head(data)>> \o KeepFirstPerVideoId(SortByDateDesc(Tail(data)), {})

InitConcurrent ==
    /\ invocations = [p \in Invocations |->
                         [pc |-> "start", idx |-> 1, lastRow |-> 0, newRows |-> <<>>,
                          data |-> <<>>, stored |-> {}, missed |-> {}, stale |-> FALSE]]
    /\ mainSheet = <<>> /\ stackSheet = <<>> /\ statsSheet = <<>> /\ historySheet = <<>>
    /\ now = 0 /\ pc = "concurrent" /\ idx = 1 /\ allRawData = <<>> /\ todayStr = 0
    /\ runLog = <<>> /\ lastRequest = NoRequest /\ before = <<>> /\ resp = NoResp
    /\ newRows = <<>> /\ channelMap = <<>> /\ loopPages = 0 /\ loopIds = <<>>
    /\ lastSort = NoSort

HoldsARead(q) == invocations[q].pc \in {"append", "clear", "write"}
HoldsTheData(q) == invocations[q].pc \in {"clear", "write"}

\* the local states after invocation p wrote rows with the videoIds ids (none
\* for clearContents and for the header) in a step that took it to local state mine
AfterWrite(p, mine, ids) ==
    [q \in Invocations |->
        IF q = p THEN mine
        ELSE [invocations[q] EXCEPT
                 !.stale = @ \/ HoldsARead(q),
                 !.missed = IF HoldsTheData(q) THEN @ \cup ids ELSE @]]

ConcurrentUnchanged ==
    UNCHANGED <<stackSheet, statsSheet, now, pc, idx, allRawData, todayStr, runLog,
                lastRequest, before, resp, newRows, historySheet, channelMap, loopPages,
                loopIds, lastSort>>

\* getOrCreateSheet and setupSheetHeaders
ConcurrentStart(p) ==
    /\ invocations[p].pc = "start"
    /\ mainSheet' = setupSheetHeaders(mainSheet)
    /\ LET mine == [invocations[p] EXCEPT !.pc = "fetch"]
       IN  invocations' = IF mainSheet' # mainSheet THEN AfterWrite(p, mine, {})
                          ELSE [invocations EXCEPT ![p] = mine]
    /\ ConcurrentUnchanged

\* the provider answers an interleaved invocation with one entry at most
ConcurrentResponses == {r \in WorkflowResponses : Len(r.videos.items) <= 1}

\* searchVideosByHashtag up to sheet.getLastRow()
ConcurrentFetch(p) ==
    /\ invocations[p].pc = "fetch"
    /\ \E r \in ConcurrentResponses :
          LET rows == fetchYouTubeVideoData(TARGET_HASHTAGS[invocations[p].idx], r, now)
              last == invocations[p].idx = Len(TARGET_HASHTAGS)
          IN  invocations' = [invocations EXCEPT ![p] =
                 IF rows = <<>>
                 THEN [@ EXCEPT !.idx = IF last THEN @ ELSE @ + 1,
                                !.pc = IF last THEN "dedupe" ELSE "fetch"]
                 ELSE [@ EXCEPT !.newRows = rows, !.lastRow = Len(mainSheet),
                                !.pc = "append"]]
    /\ UNCHANGED mainSheet
    /\ ConcurrentUnchanged

\* getRange(lastRow + 1, 1, newRows.length, ..).setValues(newRows)
ConcurrentAppend(p) ==
    /\ invocations[p].pc = "append"
    /\ mainSheet' = setValues(mainSheet, invocations[p].lastRow + 1, invocations[p].newRows)
    /\ LET last == invocations[p].idx = Len(TARGET_HASHTAGS)
           ids == {invocations[p].newRows[i].videoId : i \in DOMAIN invocations[p].newRows}
           mine == [invocations[p] EXCEPT !.idx = IF last THEN @ ELSE @ + 1,
                                          !.pc = IF last THEN "dedupe" ELSE "fetch",
                                          !.newRows = <<>>,
                                          !.stored = @ \cup ids]
       IN  invocations' = AfterWrite(p, mine, ids)
    /\ ConcurrentUnchanged

\* removeDuplicateVideos: getLastRow() and the early return
ConcurrentLastRow(p) ==
    /\ invocations[p].pc = "dedupe"
    /\ invocations' = [invocations EXCEPT ![p] =
           [@ EXCEPT !.lastRow = Len(mainSheet),
                     !.pc = IF Len(mainSheet) <= 1 THEN "done" ELSE "read"]]
    /\ UNCHANGED mainSheet
    /\ ConcurrentUnchanged

\* removeDuplicateVideos: getDataRange().getValues()
ConcurrentRead(p) ==
    /\ invocations[p].pc = "read"
    /\ invocations' = [invocations EXCEPT ![p] =
           [@ EXCEPT !.data = getValues(mainSheet), !.pc = "clear"]]
    /\ UNCHANGED mainSheet
    /\ ConcurrentUnchanged

\* removeDuplicateVideos: clearContents()
ConcurrentClear(p) ==
    /\ invocations[p].pc = "clear"
    /\ mainSheet' = <<>>
    /\ invocations' = AfterWrite(p, [invocations[p] EXCEPT !.pc = "write"], {})
    /\ ConcurrentUnchanged

\* removeDuplicateVideos: getRange(1, 1, uniqueData.length, ..).setValues(uniqueData)
ConcurrentRewrite(p) ==
    /\ invocations[p].pc = "write"
    /\ mainSheet' = setValues(mainSheet, 1, uniqueData(invocations[p].data))
    /\ invocations' = AfterWrite(p, [invocations[p] EXCEPT !.pc = "done", !.data = <<>>], {})
    /\ ConcurrentUnchanged

ConcurrentMain(p) ==
    \/ ConcurrentStart(p)
    \/ ConcurrentFetch(p)
    \/ ConcurrentAppend(p)
    \/ ConcurrentLastRow(p)
    \/ ConcurrentRead(p)
    \/ ConcurrentClear(p)
    \/ ConcurrentRewrite(p)

NextConcurrent == \E p \in Invocations : ConcurrentMain(p)

SpecConcurrent == InitConcurrent /\ [][NextConcurrent]_vars

BothReturned == \A p \in Invocations : invocations[p].pc = "done"

\* the videoId has no row in the main sheet
HasNoRow(v) == \A i \in DOMAIN mainSheet : mainSheet[i].videoId # v

\* C22: two interleaved invocations of main() can lose an update, and only
\* through a stale read: when both have returned and neither ever held a row
\* number or the sheet's data while the other wrote, every videoId either of
\* them wrote to the sheet still has a row; the witness is the interleaving in
\* which it has none.
C22_LostOnlyByStaleRead ==
    (BothReturned /\ \A p \in Invocations : ~invocations[p].stale) =>
        \A p \in Invocations : \A v \in invocations[p].stored : ~HasNoRow(v)

\* C22 witness: both invocations have returned, and a videoId that one of them
\* appended after the other's removeDuplicateVideos had read the sheet and
\* before it rewrote it has no row in the final sheet.
C22_Witness ==
    /\ BothReturned
    /\ \E p \in Invocations : \E v \in invocations[p].missed : HasNoRow(v)

-----------------------------------------------------------------------------
(* Claims about the deletions of removeDailyDuplicates *)

\* the row numbers removeDailyDuplicates passes to deleteRow, in order, on
\* the sheet as it found it
DeletionsOn(sheet, clock) ==
    LET todayData == TodayData(sheet, StartOfDay(clock))
    IN  IF sheet = <<>> \/ Len(todayData) <= 1 THEN <<>>
        ELSE SortedRowsToDelete(DailyLoop(todayData, Len(todayData), <<>>, <<>>))

RECURSIVE WithoutRows(_, _)
\* the sheet without the rows at the row numbers of S, taken out all at once
WithoutRows(sheet, S) ==
    IF sheet = <<>> THEN <<>>
    ELSE WithoutRows(SubSeq(sheet, 1, Len(sheet) - 1), S) \o
         (IF Len(sheet) \in S THEN <<>> ELSE <<sheet[Len(sheet)]>>)

\* C23: removeDailyDuplicates deletes rows in strictly descending row-number
\* order, no row number twice, so that no deletion moves a row still to be
\* deleted: the sheet it leaves is the sheet it found without the rows that
\* stood at those row numbers.
C23_DeletesInDescendingOrder ==
    pc = "dailyDone" =>
        LET rowNums == DeletionsOn(before, now)
        IN  /\ \A i, j \in DOMAIN rowNums : i < j => rowNums[i] > rowNums[j]
            /\ stackSheet = WithoutRows(before, {rowNums[k] : k \in DOMAIN rowNums})

\* C23 witness: a day-scoped dedupe that deleted two rows or more.
C23_Witness ==
    /\ pc = "dailyDone"
    /\ Len(DeletionsOn(before, now)) >= 2
    /\ Len(stackSheet) + 2 <= Len(before)

-----------------------------------------------------------------------------
(* Claims about the order of the statistics sheet *)

\* row a may stand above row b: date descending, then hashtag ascending, then
\* category ascending
InStatsOrder(a, b) ==
    \/ a.date > b.date
    \/ /\ a.date = b.date
       /\ \/ HashtagRank(a.hashtag) < HashtagRank(b.hashtag)
          \/ /\ HashtagRank(a.hashtag) = HashtagRank(b.hashtag)
             /\ CategoryRank(a.category) <= CategoryRank(b.category)

\* C24: after every updateDailyStats invocation that appended rows, the
\* header is still row 1 and all rows below it, those found and those added,
\* are in order of date descending, hashtag ascending, category ascending;
\* the range sorted began at row 2.
C24_StatsSorted ==
    (pc = "statsDone" /\ Len(statsSheet) > Len(before)) =>
        /\ statsSheet[1] = StatsHeader
        /\ \A i, j \in 2..Len(statsSheet) :
               i < j => InStatsOrder(statsSheet[i], statsSheet[j])
        /\ lastSort = [sheet |-> "stats", firstRow |-> 2, lastRow |-> Len(statsSheet)]

\* C24 witness: an invocation appended rows below rows of an earlier date and
\* the rows of the later date now stand above them.
C24_Witness ==
    /\ pc = "statsDone"
    /\ Len(before) > 1 /\ Len(statsSheet) > Len(before)
    /\ statsSheet[2].date > before[2].date
    /\ statsSheet[Len(statsSheet)].date = before[2].date

-----------------------------------------------------------------------------
(* Claims about the range of the history re-sort *)

\* the invocation that just returned appended snapshot rows
SnapshotsAppended ==
    /\ pc = "historyDone"
    /\ Len(DataRows(historySheet)) > Len(DataRows(before))

-----------------------------------------------------------------------------
(* Specification SpecVariants: removeDuplicateVideos and                   *)
(* removeDailyDuplicates applied to the same sheet, a header and up to      *)
(* MaxRows data rows all fetched on the current day.                        *)

TodayRows(clock) ==
    {Row(t, h, v, REGULAR, "ch1", 100) :
        t \in StartOfDay(clock)..clock, h \in Hashtags, v \in VideoIds}

InitVariants ==
    /\ now = DayLen + 1
    /\ \E rows \in SeqsUpTo(TodayRows(now), MaxRows) :
          /\ mainSheet = <<Header>> \o rows
          /\ stackSheet = <<Header>> \o rows
    /\ before = <<>>
    /\ pc = "input"
    /\ statsSheet = <<>> /\ historySheet = <<>>
    /\ idx = 1 /\ allRawData = <<>> /\ todayStr = 0 /\ runLog = <<>>
    /\ lastRequest = NoRequest /\ resp = NoResp /\ newRows = <<>>
    /\ channelMap = <<>> /\ loopPages = 0
    /\ loopIds = <<>>
    /\ invocations = <<>> /\ lastSort = NoSort

\* the two dedupes, each on its copy of the sheet
ApplyBothDedupes ==
    /\ pc = "input"
    /\ before' = mainSheet
    /\ mainSheet' = removeDuplicateVideos(mainSheet)
    /\ stackSheet' = removeDailyDuplicates(stackSheet, now)
    /\ pc' = "deduped"
    /\ UNCHANGED <<statsSheet, now, idx, allRawData, todayStr, runLog, lastRequest, resp,
                   newRows, historySheet, channelMap, loopPages, loopIds, invocations,
                   lastSort>>

NextVariants == ApplyBothDedupes

SpecVariants == InitVariants /\ [][NextVariants]_vars

\* the rows of the videoId in a sheet
RowsOf(sheet, v) == {sheet[i] : i \in IndexesOf(sheet, v)}

\* C26 as stated: on a sheet whose data rows were all fetched today,
\* removeDailyDuplicates retains for every videoId the row, with the same
\* field values, that removeDuplicateVideos retains, also when two rows of a
\* videoId have equal fetchedAt and different hashtags.
C26_VariantsAgree ==
    pc = "deduped" =>
        \A v \in VideoIds : RowsOf(stackSheet, v) = RowsOf(mainSheet, v)

\* the two dedupes agree on the videoIds whose rows have distinct fetchedAt
C26_VariantsAgreeWithoutTies ==
    pc = "deduped" =>
        \A v \in VideoIds :
            (\A i, j \in IndexesOf(before, v) : i # j => before[i].fetchedAt # before[j].fetchedAt)
                => RowsOf(stackSheet, v) = RowsOf(mainSheet, v)

-----------------------------------------------------------------------------
(* Claims about successive main() runs *)

StoredVideoIds == VideoIdsOf(DataRows(mainSheet))

\* C27: no step of a main() run takes a videoId out of the main sheet, so
\* over any sequence of runs one after the other the set of stored videoIds
\* only grows, also when the provider returns other videos or every fetch of
\* a run fails.
C27_MainNeverPrunes ==
    [][StoredVideoIds \subseteq VideoIdsOf(DataRows(mainSheet'))]_vars

\* C27 witness: a main() run whose fetches all failed has returned and the
\* sheet still holds the rows of an earlier run.
C27_Witness ==
    /\ pc = "mainDone"
    /\ Len(runLog) = Len(TARGET_HASHTAGS)
    /\ \A i \in DOMAIN runLog : runLog[i].outcome = "fetchFailed"
    /\ StoredVideoIds # {}

\* the fetch time of the rows of a log entry
FetchedAtOf(entry) == entry.rows[1].fetchedAt

\* both fetches of the main() run that just returned stored rows, the second
\* fetch later than the first
IncreasingFetches ==
    /\ pc = "mainDone"
    /\ Len(runLog) = Len(TARGET_HASHTAGS)
    /\ \A i \in DOMAIN runLog : runLog[i].outcome = "ok" /\ runLog[i].rows # <<>>
    /\ \A i, j \in DOMAIN runLog : i < j => FetchedAtOf(runLog[i]) < FetchedAtOf(runLog[j])

ReturnedForAll(v) == \A i \in DOMAIN runLog : v \in VideoIdsOf(runLog[i].rows)

\* C28: all rows of one fetch carry one fetchedAt; when the fetches of a
\* main() run have strictly increasing fetchedAt in the order of
\* TARGET_HASHTAGS, a video returned for every hashtag ends with one row in
\* the main sheet, the row of the hashtag processed last, and no row of it
\* from an earlier run remains.
C28_LastHashtagWins ==
    /\ \A i \in DOMAIN runLog : \A k, l \in DOMAIN runLog[i].rows :
           runLog[i].rows[k].fetchedAt = runLog[i].rows[l].fetchedAt
    /\ IncreasingFetches =>
           \A v \in VideoIds :
               ReturnedForAll(v) =>
                   /\ Cardinality(IndexesOf(DataRows(mainSheet), v)) = 1
                   /\ \A k \in IndexesOf(DataRows(mainSheet), v) :
                          /\ DataRows(mainSheet)[k].hashtag = TARGET_HASHTAGS[Len(TARGET_HASHTAGS)]
                          /\ DataRows(mainSheet)[k].fetchedAt = FetchedAtOf(runLog[Len(runLog)])

\* C28 witness: a run with increasing fetch times returned a video for both
\* hashtags, the sheet held a row of it from an earlier run, and the run left
\* one row of it; one of the fetches returned two rows.
C28_Witness ==
    /\ IncreasingFetches
    /\ \E v \in VideoIds :
          /\ ReturnedForAll(v)
          /\ Cardinality(IndexesOf(DataRows(before), v)) = Len(TARGET_HASHTAGS) + 1
          /\ Cardinality(IndexesOf(DataRows(mainSheet), v)) = 1
    /\ \E i \in DOMAIN runLog : Len(runLog[i].rows) = 2

-----------------------------------------------------------------------------
(* Specification SpecSnapshot: appendDailySnapshot() run after run while    *)
(* the clock advances, on a main sheet that is missing, holds its header    *)
(* only or holds up to MaxRows data rows, and a stacking sheet that is      *)
(* missing, holds its header only or holds a row already.                   *)

SnapshotSourceRows ==
    {Row(t, "#A", v, REGULAR, "ch1", 100) : t \in 0..1, v \in VideoIds}

InitSnapshot ==
    /\ mainSheet \in {<<>>} \cup
                     {<<Header>> \o rows : rows \in SeqsUpTo(SnapshotSourceRows, MaxRows)}
    /\ stackSheet \in {<<>>, <<Header>>, <<Header, Row(0, "#A", "vid1", REGULAR, "ch1", 100)>>}
    /\ statsSheet = <<>> /\ historySheet = <<>>
    /\ now = 0 /\ pc = "idle" /\ idx = 1 /\ allRawData = <<>> /\ todayStr = 0
    /\ runLog = <<>> /\ lastRequest = NoRequest /\ before = <<>> /\ resp = NoResp
    /\ newRows = <<>> /\ channelMap = <<>> /\ loopPages = 0
    /\ loopIds = <<>>
    /\ invocations = <<>> /\ lastSort = NoSort

\* a copy that keeps the fetchedAt of the main sheet's rows
updatedRows_keepsFetchedAt(dataRows, today) == dataRows

\* dataRows.map(row => { newRow = [...row]; newRow[0] = today; return newRow })
updatedRows(dataRows, today) ==
    [i \in DOMAIN dataRows |-> [dataRows[i] EXCEPT !.fetchedAt = today]]

\* the stacking sheet after appendDailySnapshot()
SnapshotOnto(stack, mainData, today) ==
    IF mainData = <<>> \/ Len(mainData) <= 1
    THEN stack                       \* logged, then "return"
    ELSE LET headers == mainData[1]
             dataRows == Tail(mainData)
             withHeaders == IF Len(stack) = 0 THEN setValues(stack, 1, <<headers>>) ELSE stack
         IN  setValues(withHeaders, Len(withHeaders) + 1, updatedRows(dataRows, today))

appendDailySnapshot ==
    /\ pc \in {"idle", "snapshotDone"}
    /\ Len(DataRows(stackSheet)) <= MaxStackRows
    /\ before' = stackSheet
    /\ stackSheet' = SnapshotOnto(stackSheet, mainSheet, now)
    /\ pc' = "snapshotDone"
    /\ UNCHANGED <<mainSheet, statsSheet, now, idx, allRawData, todayStr, runLog, lastRequest,
                   resp, newRows, historySheet, channelMap, loopPages, loopIds, invocations,
                   lastSort>>

NextSnapshot == Tick \/ appendDailySnapshot

SpecSnapshot == InitSnapshot /\ [][NextSnapshot]_vars

\* C30: an appendDailySnapshot() invocation (a step in which the clock stands
\* still) leaves the main sheet unchanged; when the main sheet has n >= 1 data
\* rows, the data rows of the stacking sheet are afterwards those it had,
\* unaltered, followed by n rows, the i-th equal to the i-th data row of the
\* main sheet but for fetchedAt, which is the time of the snapshot, under the
\* header the stacking sheet had or, if it had none, the main sheet's; when
\* the main sheet is missing or has no data rows nothing changes.
C30_SnapshotCopiesMain ==
    [][now' = now =>
          /\ mainSheet' = mainSheet
          /\ IF Len(mainSheet) <= 1
             THEN stackSheet' = stackSheet
             ELSE /\ Len(DataRows(stackSheet')) =
                         Len(DataRows(stackSheet)) + Len(DataRows(mainSheet))
                  /\ \A i \in DOMAIN DataRows(stackSheet) :
                         DataRows(stackSheet')[i] = DataRows(stackSheet)[i]
                  /\ \A i \in DOMAIN DataRows(mainSheet) :
                         LET copy == DataRows(stackSheet')[Len(DataRows(stackSheet)) + i]
                             row == DataRows(mainSheet)[i]
                         IN  /\ copy.fetchedAt = now
                             /\ copy = [row EXCEPT !.fetchedAt = now]
                  /\ stackSheet'[1] = IF stackSheet = <<>> THEN mainSheet[1] ELSE stackSheet[1]
    ]_vars

\* C30 witness: a snapshot returned that copied two rows or more, fetched
\* before the snapshot, below rows the stacking sheet already held.
C30_Witness ==
    /\ pc = "snapshotDone"
    /\ Len(mainSheet) > 2 /\ Len(before) > 1
    /\ Len(stackSheet) = Len(before) + Len(DataRows(mainSheet))
    /\ stackSheet[Len(stackSheet)].fetchedAt = now
    /\ mainSheet[Len(mainSheet)].fetchedAt < now

-----------------------------------------------------------------------------
(* Specification SpecErrors: one trigger fires and its entry point runs     *)
(* once while the clock advances; store operations may throw.  The entry    *)
(* point is fixed from the start in lastRequest.workflow.  A throw that     *)
(* reaches the catch block of an entry point ends the run with a log entry  *)
(* "caught"; a throw that leaves an entry point is logged as "raised" and   *)
(* takes pc to the entry point's "Threw" position.                          *)

Triggered(workflow) == [NoRequest EXCEPT !.workflow = workflow]

InitErrors ==
    /\ \/ /\ lastRequest \in {Triggered("main"), Triggered("daily"), Triggered("stats")}
          /\ mainSheet = <<>> /\ stackSheet = <<>>
       \/ /\ lastRequest = Triggered("snapshot")
          /\ mainSheet \in {<<>>, <<Header>>,
                            <<Header, Row(0, "#A", "vid1", REGULAR, "ch1", 100)>>}
          /\ stackSheet \in {<<>>, <<Header>>}
       \/ /\ lastRequest = Triggered("history")
          /\ mainSheet \in {<<>>} \cup
                {<<headers>> \o [i \in DOMAIN rows |-> LayOut(headers, rows[i])] :
                    headers \in MainHeaders, rows \in SeqsUpTo(MainRows, 1)}
          /\ stackSheet = <<>>
    /\ statsSheet = <<>> /\ historySheet = <<>>
    /\ now = 0 /\ pc = "idle" /\ idx = 1 /\ allRawData = <<>> /\ todayStr = 0
    /\ runLog = <<>> /\ before = <<>> /\ resp = NoResp
    /\ newRows = <<>> /\ channelMap = <<>> /\ loopPages = 0
    /\ loopIds = <<>>
    /\ invocations = <<>> /\ lastSort = NoSort

Caught == LogEntry("none", "caught", <<>>)
Raised == LogEntry("none", "raised", <<>>)

\* main() without its try/catch: the throw leaves main()
MainThrows_uncaught ==
    /\ lastRequest.workflow = "main"
    /\ \E op \in {"getOrCreateSpreadsheet", "getValues", "clearContents", "setValues"} :
          /\ IF op = "getOrCreateSpreadsheet" THEN pc = "idle"
             ELSE pc = "mainDedupe" /\ Len(mainSheet) > 1
          /\ mainSheet' = IF op = "setValues" THEN <<>> ELSE mainSheet
    /\ pc' = "mainThrew"
    /\ runLog' = Append(runLog, Raised)
    /\ UNCHANGED <<stackSheet, statsSheet, now, idx, allRawData, todayStr, lastRequest,
                   before, resp, newRows, historySheet, channelMap, loopPages, loopIds,
                   invocations, lastSort>>

\* a store operation of main() outside searchVideosByHashtag throws - at the
\* start, or in removeDuplicateVideos, where a throw of setValues comes after
\* clearContents - and the catch block of main() logs it
MainThrows ==
    /\ lastRequest.workflow = "main"
    /\ \E op \in {"getOrCreateSpreadsheet", "getValues", "clearContents", "setValues"} :
          /\ IF op = "getOrCreateSpreadsheet" THEN pc = "idle"
             ELSE pc = "mainDedupe" /\ Len(mainSheet) > 1
          /\ mainSheet' = IF op = "setValues" THEN <<>> ELSE mainSheet
    /\ pc' = "mainDone"
    /\ runLog' = Append(runLog, Caught)
    /\ UNCHANGED <<stackSheet, statsSheet, now, idx, allRawData, todayStr, lastRequest,
                   before, resp, newRows, historySheet, channelMap, loopPages, loopIds,
                   invocations, lastSort>>

\* a store operation of dailyUpdate() outside searchAndAppendVideos throws -
\* at the start, or in removeDailyDuplicates at getValues or at one of the
\* deleteRow calls - and the catch block of dailyUpdate() logs it
DailyThrows ==
    /\ lastRequest.workflow = "daily"
    /\ \/ /\ pc = "idle"
          /\ UNCHANGED stackSheet
       \/ /\ pc = "dailyDedupe"
          /\ \E done \in 0..Len(DeletionsOn(stackSheet, now)) :
                stackSheet' = DeleteRows(stackSheet,
                                         SubSeq(DeletionsOn(stackSheet, now), 1, done))
    /\ pc' = "dailyDone"
    /\ runLog' = Append(runLog, Caught)
    /\ UNCHANGED <<mainSheet, statsSheet, now, idx, allRawData, todayStr, lastRequest,
                   before, resp, newRows, historySheet, channelMap, loopPages, loopIds,
                   invocations, lastSort>>

\* a store operation of updateDailyStats() throws - openById at the start, or
\* one of the appendRow calls or the sort - and its catch block logs it
StatsThrows ==
    /\ lastRequest.workflow = "stats"
    /\ \/ /\ pc = "idle"
          /\ UNCHANGED statsSheet
       \/ /\ pc = "statsAggregate" /\ allRawData # <<>>
          /\ \E done \in 0..Len(StatsRowsFrom(1, allRawData, todayStr)) :
                statsSheet' = statsSheet \o
                                  SubSeq(StatsRowsFrom(1, allRawData, todayStr), 1, done)
    /\ pc' = "statsDone"
    /\ runLog' = Append(runLog, Caught)
    /\ UNCHANGED <<mainSheet, stackSheet, now, idx, allRawData, todayStr, lastRequest,
                   before, resp, newRows, historySheet, channelMap, loopPages, loopIds,
                   invocations, lastSort>>

\* a store operation of appendDailySnapshot() throws - getOrCreateSpreadsheet,
\* or a later one, after the header was written to an empty stacking sheet -
\* and its catch block logs it
SnapshotThrows ==
    /\ lastRequest.workflow = "snapshot"
    /\ pc = "idle"
    /\ \/ UNCHANGED stackSheet
       \/ /\ Len(mainSheet) > 1 /\ stackSheet = <<>>
          /\ stackSheet' = setValues(stackSheet, 1, <<mainSheet[1]>>)
    /\ pc' = "snapshotDone"
    /\ runLog' = Append(runLog, Caught)
    /\ UNCHANGED <<mainSheet, statsSheet, now, idx, allRawData, todayStr, lastRequest,
                   before, resp, newRows, historySheet, channelMap, loopPages, loopIds,
                   invocations, lastSort>>

\* a store operation of updateSubscriberHistory() throws - openById, or a
\* later one, after the header was appended to a new sheet; the function has
\* no try/catch
HistoryThrows ==
    /\ lastRequest.workflow = "history"
    /\ pc = "idle"
    /\ \/ UNCHANGED historySheet
       \/ /\ historySheet = <<>>
          /\ historySheet' = <<HistoryHeader>>
    /\ pc' = "historyThrew"
    /\ runLog' = Append(runLog, Raised)
    /\ UNCHANGED <<mainSheet, stackSheet, statsSheet, now, idx, allRawData, todayStr,
                   lastRequest, before, resp, newRows, channelMap, loopPages, loopIds,
                   invocations, lastSort>>

MainTriggered ==
    \/ pc = "idle" /\ lastRequest.workflow = "main" /\ MainStart
    \/ \E hashtag \in Hashtags : searchVideosByHashtag(hashtag)
    \/ MainDedupe
    \/ MainThrows

DailyTriggered ==
    \/ pc = "idle" /\ lastRequest.workflow = "daily" /\ DailyStart
    \/ \E hashtag \in Hashtags : searchAndAppendVideos(hashtag)
    \/ DailyDedupe
    \/ DailyThrows

StatsTriggered ==
    \/ pc = "idle" /\ lastRequest.workflow = "stats" /\ StatsStart
    \/ \E hashtag \in Hashtags : StatsFetch(hashtag)
    \/ StatsAggregate
    \/ StatsThrows

SnapshotTriggered ==
    \/ pc = "idle" /\ lastRequest.workflow = "snapshot" /\ appendDailySnapshot
    \/ SnapshotThrows

HistoryTriggered ==
    \/ pc = "idle" /\ lastRequest.workflow = "history" /\ updateSubscriberHistory
    \/ HistoryThrows

NextErrors ==
    \/ Tick
    \/ MainTriggered
    \/ DailyTriggered
    \/ StatsTriggered
    \/ SnapshotTriggered
    \/ HistoryTriggered

SpecErrors == InitErrors /\ [][NextErrors]_vars

Logged(entry) == \E i \in DOMAIN runLog : runLog[i] = entry

\* the header lookups or the read of the data rows of updateSubscriberHistory
\* throw on this main sheet
LookupThrows == mainSheet # <<>> /\ (LacksAColumn \/ Len(mainSheet) = 1)

\* C29: main, dailyUpdate, updateDailyStats and appendDailySnapshot never
\* let an exception out: whatever provider call or store operation throws
\* inside them, they return; updateSubscriberHistory lets out the failure of
\* a header lookup or of a store operation.
C29_OnlyHistoryPropagates ==
    /\ pc \notin {"mainThrew", "dailyThrew", "statsThrew", "snapshotThrew"}
    /\ lastRequest.workflow \in {"main", "daily", "stats", "snapshot"} => ~Logged(Raised)
    /\ Logged(Caught) => pc \in {"mainDone", "dailyDone", "statsDone", "snapshotDone"}
    /\ (lastRequest.workflow = "history" /\ pc # "idle") =>
           (pc = "historyThrew" <=> (Logged(Raised) \/ LookupThrows))

\* C29 witness: a main() run whose first fetch failed and whose
\* removeDuplicateVideos threw has returned.
C29_Witness ==
    /\ pc = "mainDone"
    /\ Logged(Caught)
    /\ Len(runLog) = Len(TARGET_HASHTAGS) + 1
    /\ runLog[1].outcome = "fetchFailed"

====
